---------------------------- MODULE Spec2Model ----------------------------
(***************************************************************************)
(* Model of metricq-source-bacnet: the BacnetSource (source.py) that       *)
(* reloads its configuration, runs one worker task per object group,       *)
(* relays poll results from the BACnet runner thread into the asyncio      *)
(* dispatch task, and the BACnetMetricQReader (bacnet/application.py)      *)
(* with its object-info cache, device discovery and value polls.           *)
(*                                                                         *)
(* Spec       the orchestrator: reload, workers, reader thread, relay      *)
(*            queue, dispatch task and stop(), with time abstracted.       *)
(* FairSpec   Spec with the fairness asyncio gives the worker tasks.       *)
(* SpecTimed  one worker's RUNNING loop over an integer clock: deadline    *)
(*            arithmetic and the NaN-at-timeout bookkeeping.               *)
(***************************************************************************)
EXTENDS Integers, Sequences, FiniteSets, TLC

(***************************************************************************)
(* Bounds of the model.                                                    *)
(***************************************************************************)
\* value polls (request_values calls) of one worker
MaxPolls == 2
\* config RPCs delivered over one run
MaxReloads == 2
\* bacnetReaderRetryCount of the modelled configurations (code default: 10)
RetryCount == 2

(***************************************************************************)
(* The environment: two devices.  d1 serves every requested property; d2   *)
(* has no description on its device object (an optional BACnet property:   *)
(* the read returns a property access error for it).  Instance 2 of any    *)
(* device has no description either.                                       *)
(***************************************************************************)
Devices == {"d1", "d2"}

DeviceIdentifier(d) == IF d = "d1" THEN 101 ELSE 102

DeviceProps == {"objectName", "description"}

ObjectProps == {"objectName", "description", "units"}

ServedProps(d, t, i) ==
    IF t = "device"
    THEN IF d = "d1" THEN DeviceProps \cup {"objectList"}
         ELSE {"objectName", "objectList"}
    ELSE IF i = 2 THEN {"objectName", "units"} ELSE ObjectProps

DeviceKey(d) == <<d, "device", DeviceIdentifier(d)>>

\* the disk cache file written by an earlier run that knew d1
DiskCache ==
    (DeviceKey("d1") :> DeviceProps) @@ (<<"d1", "analogInput", 1>> :> ObjectProps)

EmptyCache == [k \in {} |-> {}]

(***************************************************************************)
(* Configuration documents.  objectInstance is the range string, held as   *)
(* its comma-separated parts: <<a, b>> for "a-b" and <<a>> for "a".        *)
(***************************************************************************)
Grp(t, r) == [objectType |-> t, objectInstance |-> r]

Dev(a, id, cs, gs) ==
    [address |-> a, deviceIdentifier |-> id, chunkSize |-> cs, objectGroups |-> gs]

\* a device identifier is configured, chunkSize 1, the range "1-2"
CfgOneId == <<Dev("d1", 101, 1, <<Grp("analogInput", <<(<<1, 2>>)>>)>>)>>

CfgTwoDevices ==
    <<Dev("d1", 0, 0, <<Grp("analogInput", <<(<<1>>)>>)>>),
      Dev("d2", 0, 0, <<Grp("analogInput", <<(<<1>>)>>)>>)>>

CfgOther == <<Dev("d2", 0, 0, <<Grp("analogInput", <<(<<1>>)>>)>>)>>

\* the ranges "1-5" and "3-7" of one object type on one device
CfgOverlap ==
    <<Dev("d1", 0, 0, <<Grp("analogInput", <<(<<1, 5>>)>>), Grp("analogInput", <<(<<3, 7>>)>>)>>)>>

\* only the second and the third group overlap: "1", "2" and "3,2"
CfgOverlapLate ==
    <<Dev("d1", 0, 0, <<Grp("analogInput", <<(<<1>>)>>),
                        Grp("analogInput", <<(<<2>>)>>),
                        Grp("analogInput", <<(<<3>>), (<<2>>)>>)>>)>>

ValidConfigs == {CfgOneId, CfgTwoDevices, CfgOther}

InvalidConfigs == {CfgOverlap, CfgOverlapLate}

Configs == ValidConfigs \cup InvalidConfigs

(***************************************************************************)
(* source.py: unpack_range                                                 *)
(***************************************************************************)
IntRange(a, b) == [k \in 1..(b - a + 1) |-> a + k - 1]

RECURSIVE unpack_range(_)
unpack_range(range_str) ==
    IF range_str = <<>> THEN <<>>
    ELSE LET r == Head(range_str)
             ret == IF Len(r) = 2 THEN IntRange(r[1], r[2]) ELSE <<r[1]>>
         IN ret \o unpack_range(Tail(range_str))

SeqToSet(s) == {s[k] : k \in DOMAIN s}


(***************************************************************************)
(* source.py: _on_config, the parse of config["devices"] (lines 121-171)   *)
(***************************************************************************)
\* line 156: object_instances_by_type[object_type].update(object_instances)
UpdateInstancesByType_NoUpdate(by_type, t, insts) == by_type

UpdateInstancesByType(by_type, t, insts) == [by_type EXCEPT ![t] = @ \cup insts]

\* lines 138-158 for the groups of one device: whether config_error is set
RECURSIVE ScanObjectGroups(_, _)
ScanObjectGroups(gs, by_type) ==
    IF gs = <<>> THEN FALSE
    ELSE LET t == Head(gs).objectType
             insts == SeqToSet(unpack_range(Head(gs).objectInstance))
         IN IF t \in DOMAIN by_type
            THEN \/ (by_type[t] \cap insts) # {}
                 \/ ScanObjectGroups(Tail(gs), UpdateInstancesByType(by_type, t, insts))
            ELSE ScanObjectGroups(Tail(gs), by_type @@ (t :> insts))

\* object_instances_by_type is a fresh dict for every device (line 125)
config_error(config) ==
    \E k \in DOMAIN config : ScanObjectGroups(config[k].objectGroups, [t \in {} |-> {}])

\* lines 142-147: the object_group_config of one group of one device
ObjectGroupConfig(dev, g) ==
    [object_type |-> g.objectType,
     object_instances |-> unpack_range(g.objectInstance),
     device_address_str |-> dev.address,
     chunk_size |-> dev.chunkSize,
     device_identifier |-> dev.deviceIdentifier]

RECURSIVE ParseObjectGroups(_)
ParseObjectGroups(config) ==
    IF config = <<>> THEN <<>>
    ELSE LET dev == Head(config)
         IN [k \in DOMAIN dev.objectGroups |-> ObjectGroupConfig(dev, dev.objectGroups[k])]
            \o ParseObjectGroups(Tail(config))

\* line 134: the keys of self._device_config
ParseDeviceConfig(config) == {config[k].address : k \in DOMAIN config}

(***************************************************************************)
(* State                                                                   *)
(***************************************************************************)
VARIABLES
    \* BacnetSource
    bacnet_reader,          \* "none", "running", "stopped", "join_timeout"
    object_groups,          \* self._object_groups
    device_config,          \* the keys of self._device_config
    worker_stop_futures,    \* per worker: whether its stop future is done
    worker_tasks,           \* per worker: the state of its _worker_task; rdp is how
                            \* request_device_properties returned, polls and
                            \* declares count its request_values and
                            \* declare_metrics calls
    counts,                 \* _worker_tasks_count_{expected,starting,running,failed}
    result_queue,           \* self._result_queue
    unfinished_tasks,       \* the queue's count of items not yet task_done()
    main_task_stop_future,  \* whether the future is done
    task_pc,                \* task(): "running", "stopped", "crashed"
    config_pc,              \* _on_config: "idle", "waiting" (in asyncio.wait)
    config_arg,             \* the config of the _on_config call in progress
    config_result,          \* how the last _on_config call ended
    stop_pc,                \* stop(): "idle", "waiting", "joining", "done"
    stop_waits,             \* the generation of the tasks stop() waits for
    \* BACnetMetricQReader
    object_info_cache,      \* self._object_info_cache
    deviceInfoCache,        \* addresses the device info cache knows
    io_queue,               \* per device address: the IOCBs not yet completed
    thread_pc,              \* the runner thread: "idle", "putting", "exited"
    put_item,               \* the item of the queue.put the thread waits for
    \* history
    reloads,                \* config RPCs delivered
    stop_log,               \* the steps of stop() in the order they completed
    \* the RUNNING loop over a clock (SpecTimed)
    clock,                  \* what Timestamp.now() returns
    interval,               \* object_group["interval"]
    nan_at_timeout,         \* object_group.get("nan_at_timeout")
    deadline,               \* the local deadline of _worker_task
    deadline0,              \* the deadline when the loop was entered (line 486)
    now,                    \* the local now of _worker_task (line 507)
    last_time_send_by_metric, \* self._last_time_send_by_metric
    sent,                   \* the timestamps of the NaN samples handed to self.send
    in_flight,              \* value requests not yet answered
    stamped,                \* the timestamps of the results in the queue
    polls_at_deadline,      \* request_values calls since the deadline moved
    last_check,             \* the previous NaN check of the metric
    \* the relay of the results (SpecRelay)
    published,              \* the self.send calls task() made for the result it
                            \* dequeued last: <<metric_id, timestamp, value>>
    put_failed,             \* the results whose queue.put raised
    \* the blocking requests of the reader (SpecGateway)
    calls,                  \* per call site: the coroutine that awaits the
                            \* request and the request_*_properties call
                            \* it handed to the executor
    cache_lock,             \* the owner of self._object_info_cache_lock
    disk_cache_file,        \* the content of the disk cache file and whether
                            \* stop() has written it
    \* chunk sizes (SpecChunks)
    chunk_call,             \* the arguments of a request over a list of objects
    chunk_out               \* the chunks of objects it sent, in order

source_vars ==
    <<bacnet_reader, object_groups, device_config, worker_stop_futures, worker_tasks,
      counts, result_queue, unfinished_tasks, main_task_stop_future, task_pc,
      config_pc, config_arg, config_result, stop_pc, stop_waits>>

reader_vars == <<object_info_cache, deviceInfoCache, io_queue, thread_pc, put_item>>

history_vars == <<reloads, stop_log>>

timed_vars ==
    <<clock, interval, nan_at_timeout, deadline, deadline0, now,
      last_time_send_by_metric, sent, in_flight, stamped, polls_at_deadline,
      last_check>>

relay_vars == <<published, put_failed>>

gateway_vars == <<calls, cache_lock, disk_cache_file, chunk_call, chunk_out>>

vars == <<source_vars, reader_vars, history_vars, timed_vars, relay_vars, gateway_vars>>

Terminal == {"stopped", "failed", "crashed"}

AllTasksDone_NoWait == TRUE

\* line 77: asyncio.wait(self._worker_tasks) returns when every task is done
AllTasksDone == \A k \in DOMAIN worker_tasks : worker_tasks[k].pc \in Terminal

NoDeviceInfo == [found |-> FALSE, props |-> {}]

NewWorker(g, gen) ==
    [pc |-> "jitter", group |-> g, gen |-> gen, retry |-> 0, rdp |-> "none",
     device_info |-> NoDeviceInfo, metrics |-> {}, polls |-> 0, declares |-> 0]


(***************************************************************************)
(* source.py: _on_config (lines 70-212)                                    *)
(***************************************************************************)
\* lines 193-212: the workers of an accepted configuration
CreateWorkers(groups, gen) ==
    /\ worker_tasks' = [k \in DOMAIN groups |-> NewWorker(groups[k], gen)]
    /\ worker_stop_futures' = [k \in DOMAIN groups |-> FALSE]
    /\ counts' = [expected |-> Len(groups), starting |-> 0, running |-> 0, failed |-> 0]

\* lines 80-212, what follows the wait for the previous workers
ConfigBody(config, gen) ==
    /\ bacnet_reader' = IF bacnet_reader = "none" THEN "running" ELSE bacnet_reader
    /\ object_groups' = ParseObjectGroups(config)
    /\ device_config' = ParseDeviceConfig(config)
    /\ config_pc' = "idle"
    /\ config_arg' = <<>>
    /\ IF config_error(config)
       THEN /\ config_result' = "rejected"
            /\ UNCHANGED <<worker_tasks, counts>>
       ELSE /\ config_result' = "accepted"
            /\ CreateWorkers(ParseObjectGroups(config), gen)

\* lines 72-73: set_result on every stop future; a future that is already
\* done raises InvalidStateError and ends the handler there
SetStopFutures(futures) ==
    [k \in DOMAIN futures |->
        futures[k] \/ \A j \in 1..(k - 1) : ~futures[j]]

\* The configurations the model delivers: at most MaxReloads of them, and a
\* valid one with several object groups only as the first.
Delivered(config) ==
    /\ reloads < MaxReloads
    /\ (~config_error(config) /\ Len(ParseObjectGroups(config)) > 1) => reloads = 0

OnConfigBegin(config) ==
    /\ config_pc = "idle"
    /\ stop_pc = "idle"
    /\ Delivered(config)
    /\ reloads' = reloads + 1
    /\ UNCHANGED <<result_queue, unfinished_tasks, main_task_stop_future, task_pc,
                   stop_pc, stop_waits, reader_vars, stop_log,
                   timed_vars, relay_vars, gateway_vars>>
    /\ IF \E k \in DOMAIN worker_stop_futures : worker_stop_futures[k]
       THEN /\ worker_stop_futures' = SetStopFutures(worker_stop_futures)
            /\ config_result' = "invalid_state"
            /\ UNCHANGED <<bacnet_reader, object_groups, device_config, worker_tasks,
                           counts, config_pc, config_arg>>
       ELSE IF worker_tasks # <<>>
       THEN /\ worker_stop_futures' = SetStopFutures(worker_stop_futures)
            /\ config_pc' = "waiting"
            /\ config_arg' = config
            /\ UNCHANGED <<bacnet_reader, object_groups, device_config, worker_tasks,
                           counts, config_result>>
       ELSE /\ ConfigBody(config, reloads + 1)
            /\ IF config_error(config) THEN UNCHANGED worker_stop_futures ELSE TRUE

\* line 77 returns: every task of the previous configuration is done
OnConfigResume ==
    /\ config_pc = "waiting"
    /\ AllTasksDone
    /\ ConfigBody(config_arg, reloads)
    /\ IF config_error(config_arg) THEN UNCHANGED worker_stop_futures ELSE TRUE
    /\ UNCHANGED <<result_queue, unfinished_tasks, main_task_stop_future, task_pc,
                   stop_pc, stop_waits, reader_vars, reloads,
                   stop_log, timed_vars, relay_vars, gateway_vars>>

(***************************************************************************)
(* source.py: stop (lines 283-315)                                         *)
(***************************************************************************)
StopJoinQueue_NoJoin(log) ==
    /\ main_task_stop_future' = TRUE
    /\ stop_pc' = "done"
    /\ stop_log' = log \o <<"join", "main_stop">>

\* lines 310-313: join the queue, then set the main task's stop future
StopJoinQueue(log) ==
    IF unfinished_tasks = 0
    THEN /\ main_task_stop_future' = TRUE
         /\ stop_pc' = "done"
         /\ stop_log' = log \o <<"join", "main_stop">>
    ELSE /\ stop_pc' = "joining"
         /\ stop_log' = log
         /\ UNCHANGED main_task_stop_future

\* lines 301-308 with BACnetMetricQReader.stop: the join of the runner
\* thread runs on the event loop's thread, so a thread that waits for the
\* loop (in fut.result()) cannot be joined: RuntimeError, which is logged
StopReader ==
    /\ bacnet_reader' =
         IF bacnet_reader # "running" THEN bacnet_reader
         ELSE IF thread_pc = "putting" THEN "join_timeout" ELSE "stopped"
    /\ thread_pc' =
         IF bacnet_reader = "running" /\ thread_pc = "idle" THEN "exited" ELSE thread_pc

\* lines 290-313, what follows the wait for the worker tasks
StopAfterWait(log) ==
    /\ StopReader
    /\ StopJoinQueue(log \o <<"await", "reader">>)

StopBegin ==
    /\ stop_pc = "idle"
    /\ worker_stop_futures' = [k \in DOMAIN worker_stop_futures |-> TRUE]
    /\ stop_waits' = IF worker_tasks # <<>> THEN worker_tasks[1].gen ELSE 0
    /\ IF worker_tasks # <<>>
       THEN /\ stop_pc' = "waiting"
            /\ stop_log' = <<"signal">>
            /\ UNCHANGED <<bacnet_reader, thread_pc, main_task_stop_future>>
       ELSE StopAfterWait(<<"signal">>)
    /\ UNCHANGED <<object_groups, device_config, worker_tasks, counts, result_queue,
                   unfinished_tasks, task_pc, config_pc, config_arg, config_result,
                   object_info_cache, deviceInfoCache, io_queue, put_item,
                   reloads, timed_vars, relay_vars, gateway_vars>>

\* line 292 returns: the tasks stop() waited for are done
StopResume ==
    /\ stop_pc = "waiting"
    /\ AllTasksDone \/ \E k \in DOMAIN worker_tasks : worker_tasks[k].gen > stop_waits
    /\ StopAfterWait(stop_log)
    /\ UNCHANGED <<object_groups, device_config, worker_stop_futures, worker_tasks,
                   counts, result_queue, unfinished_tasks, task_pc, config_pc,
                   config_arg, config_result, stop_waits, object_info_cache,
                   deviceInfoCache, io_queue, put_item,
                   reloads, timed_vars, relay_vars, gateway_vars>>

\* line 310 returns: every queued item has been task_done()
StopJoined ==
    /\ stop_pc = "joining"
    /\ unfinished_tasks = 0
    /\ StopJoinQueue(stop_log)
    /\ UNCHANGED <<bacnet_reader, object_groups, device_config, worker_stop_futures,
                   worker_tasks, counts, result_queue, unfinished_tasks, task_pc,
                   config_pc, config_arg, config_result, stop_waits, reader_vars,
                   reloads, timed_vars, relay_vars, gateway_vars>>


(***************************************************************************)
(* bacnet/application.py: the object-info cache and the blocking requests  *)
(***************************************************************************)
\* lines 63-66
RECURSIVE chunks(_, _)
chunks(lst, n) ==
    IF lst = <<>> THEN <<>>
    ELSE IF Len(lst) <= n THEN <<lst>>
    ELSE <<SubSeq(lst, 1, n)>> \o chunks(SubSeq(lst, n + 1, Len(lst)), n)

MergeIntoCache_Replace(cache, key, bundle) == (key :> bundle) @@ cache

\* lines 378-388 and 483-489: create the key if missing, then dict.update
MergeIntoCache(cache, key, bundle) ==
    IF key \in DOMAIN cache
    THEN [cache EXCEPT ![key] = @ \cup bundle]
    ELSE cache @@ (key :> bundle)

IsCached_Never(cache, key, properties) == FALSE

\* lines 347-352 and 428-436: the skip_when_cached test of one key
IsCached(cache, key, properties) ==
    key \in DOMAIN cache /\ properties \subseteq cache[key]

\* lines 574-583
get_object_info(cache, device_address_str, object_type, object_instance) ==
    LET key == <<device_address_str, object_type, object_instance>>
    IN IF key \in DOMAIN cache
       THEN [found |-> TRUE, props |-> cache[key]]
       ELSE NoDeviceInfo

get_device_info_Any(cache, known, device_address_str, device_identifier) ==
    [found |-> TRUE, props |-> DeviceProps]

\* lines 550-572
get_device_info(cache, known, device_address_str, device_identifier) ==
    IF device_address_str \in known
    THEN get_object_info(cache, device_address_str, "device",
                         DeviceIdentifier(device_address_str))
    ELSE IF device_identifier # 0
    THEN get_object_info(cache, device_address_str, "device", device_identifier)
    ELSE NoDeviceInfo

\* lines 448-451
PropertiesChunkSize == 20

\* line 518
chunk_scale == 3

\* lines 520-523
ValuesChunkSize == PropertiesChunkSize * chunk_scale

ChunkSizeOr(chunk_size, default) == IF chunk_size # 0 THEN chunk_size ELSE default

RECURSIVE SelectSeq2(_, _)
SelectSeq2(seq, keep) ==
    IF seq = <<>> THEN <<>>
    ELSE (IF Head(seq) \in keep THEN <<Head(seq)>> ELSE <<>>) \o SelectSeq2(Tail(seq), keep)

RECURSIVE MergeAll(_, _, _, _)
MergeAll(cache, d, t, insts) ==
    IF insts = {} THEN cache
    ELSE LET i == CHOOSE x \in insts : TRUE
         IN MergeAll(MergeIntoCache(cache, <<d, t, i>>, ServedProps(d, t, i) \cap ObjectProps),
                     d, t, insts \ {i})

(***************************************************************************)
(* Names and metric ids.  A name is a sequence of characters.  The cache   *)
(* of the model holds which properties a bundle has; the value of a        *)
(* property is the one the device serves (PropertyValue).                  *)
(***************************************************************************)
\* the instances the valid configurations poll
Instances == 1..3

\* the objectName of a device object and of an object, and the vendor
\* specific name held under the property "3000"
PropertyValue(d, t, i, p) ==
    IF t = "device" THEN <<"D", " ", IF d = "d1" THEN "1" ELSE "2">>
    ELSE IF p = "3000" THEN <<"V", ToString(i)>>
    ELSE <<"A", "'", ToString(i)>>

\* config["devices"][...]["metricId"] of the modelled configurations:
\* "$deviceName.$objectName"
MetricIdTemplate == <<"$deviceName", ".", "$objectName">>

\* config["vendorSpecificMapping"]: the name "D2" of a device is remapped
vendorSpecificMapping == (<<"D", " ", "2">> :> <<"B", "2">>)

\* config["vendorSpecificNameSubstitutions"], as the list of its items:
\* the character "V" is replaced by "v3"
vendorSpecificNameSubstitutions == <<(<<"V", <<"v", "3">> >>)>>

\* dict.get(name, name) on the vendor specific mapping
MapName(name) ==
    IF name \in DOMAIN vendorSpecificMapping THEN vendorSpecificMapping[name] ELSE name

\* str.replace(old, new) for a character old
replace(string, old, new) ==
    LET done[n \in 0..Len(string)] ==
          IF n = 0 THEN <<>>
          ELSE done[n - 1] \o (IF string[n] = old THEN new ELSE <<string[n]>>)
    IN done[Len(string)]

\* source.py lines 50-53
RECURSIVE substitute_all(_, _)
substitute_all(string, substitutions) ==
    IF substitutions = <<>> THEN string
    ELSE substitute_all(replace(string, Head(substitutions)[1], Head(substitutions)[2]),
                        Tail(substitutions))

\* Template(...).safe_substitute({"objectName": ..., "deviceName": ...})
safe_substitute(template, object_name, device_name) ==
    LET done[n \in 0..Len(template)] ==
          IF n = 0 THEN <<>>
          ELSE done[n - 1] \o (CASE template[n] = "$objectName" -> object_name
                                 [] template[n] = "$deviceName" -> device_name
                                 [] OTHER -> <<template[n]>>)
    IN done[Len(template)]

\* source.py lines 253-262 and 433-440; the names of the model hold no
\* grave and no acute accent, the other two characters replaced by "."
MetricIdOf(template, object_name, device_name) ==
    replace(replace(safe_substitute(template, object_name, device_name), "'", <<".">>),
            " ", <<>>)

\* source.py lines 387-393 and 235-241: the device name after the mapping
\* and the substitutions
DisplayName(name) == substitute_all(MapName(name), vendorSpecificNameSubstitutions)

\* source.py line 423: object_info.get("3000", object_info["objectName"]),
\* as the property the name is taken from
ObjectNameProperty(cache, d, t, i) ==
    IF <<d, t, i>> \in DOMAIN cache /\ "3000" \in cache[<<d, t, i>>]
    THEN "3000"
    ELSE "objectName"

\* source.py lines 387-393 and 422-440: the metric id built from the name
\* of device d and the name that property p gives object i; a table of
\* the values, since they depend on nothing else
MetricIdTable ==
    [d \in Devices, p \in {"3000", "objectName"}, i \in Instances |->
       MetricIdOf(MetricIdTemplate,
                 DisplayName(PropertyValue(d, "object", i, p)),
                 DisplayName(PropertyValue(d, "device", 0, "objectName")))]

\* source.py lines 422-440: the metric id the worker declares for instance i
WorkerMetricId(cache, g, i) ==
    MetricIdTable[g.device_address_str,
                  ObjectNameProperty(cache, g.device_address_str, g.object_type, i),
                  i]

(***************************************************************************)
(* source.py: _worker_task (lines 332-529)                                 *)
(***************************************************************************)
WState(w) ==
    CASE w.pc = "jitter" -> "PENDING"
      [] w.pc = "started" -> "STARTING"
      [] w.pc \in {"rdp_whois", "rdp_sleep", "rdp_read", "rop", "build", "declare"} -> "DISCOVERING"
      [] w.pc \in {"poll", "nan", "advance", "sleep"} -> "RUNNING"
      [] w.pc = "stopped" -> "STOPPED"
      [] w.pc = "failed" -> "FAILED"
      [] OTHER -> "EXCEPTION"

worker_frame ==
    UNCHANGED <<bacnet_reader, object_groups, device_config, worker_stop_futures,
                result_queue, unfinished_tasks, main_task_stop_future, task_pc,
                config_pc, config_arg, config_result, stop_pc, stop_waits,
                thread_pc, put_item, reloads, stop_log, timed_vars, relay_vars, gateway_vars>>

\* lines 351-354: the jitter sleep is over
WorkerStart(k) ==
    /\ worker_tasks[k].pc = "jitter"
    /\ worker_tasks' = [worker_tasks EXCEPT ![k].pc = "started"]
    /\ counts' = [counts EXCEPT !.starting = @ + 1]
    /\ UNCHANGED <<object_info_cache, deviceInfoCache, io_queue>>
    /\ worker_frame

\* application.py lines 321-344: the device is looked up; the retry loop
\* of who_is and sleep runs while it is unknown
RequestDevicePropertiesBegin(k) ==
    /\ worker_tasks[k].pc = "started"
    /\ LET next == IF worker_tasks[k].group.device_address_str \in deviceInfoCache
                    THEN "rdp_read"
                    ELSE IF RetryCount > 0 THEN "rdp_whois" ELSE "rop"
       IN worker_tasks' =
            [worker_tasks EXCEPT ![k].pc = next,
                                 ![k].rdp = IF next = "rop" THEN "not_found" ELSE @]
    /\ UNCHANGED <<counts, object_info_cache, deviceInfoCache, io_queue>>
    /\ worker_frame

\* lines 326-327: deferred(self.who_is), then time.sleep(5 * (retry + 1))
RequestDevicePropertiesWhoIs(k) ==
    /\ worker_tasks[k].pc = "rdp_whois"
    /\ worker_tasks' = [worker_tasks EXCEPT ![k].pc = "rdp_sleep", ![k].retry = @ + 1]
    /\ UNCHANGED <<counts, object_info_cache, deviceInfoCache, io_queue>>
    /\ worker_frame

\* lines 329-344: after the sleep
AfterWhoIs(known, retry) ==
    IF known THEN "rdp_read" ELSE IF retry < RetryCount THEN "rdp_whois" ELSE "rop"

RequestDevicePropertiesWake(k) ==
    /\ worker_tasks[k].pc = "rdp_sleep"
    /\ LET next == AfterWhoIs(worker_tasks[k].group.device_address_str \in deviceInfoCache,
                              worker_tasks[k].retry)
       IN worker_tasks' =
            [worker_tasks EXCEPT ![k].pc = next,
                                 ![k].retry = IF next = "rdp_whois" THEN @ ELSE 0,
                                 ![k].rdp = IF next = "rop" THEN "not_found" ELSE @]
    /\ UNCHANGED <<counts, object_info_cache, deviceInfoCache, io_queue>>
    /\ worker_frame

\* lines 346-402 with skip_when_cached: the read of the device object's
\* properties, answered (ok) or ended by a timeout or an error
RequestDevicePropertiesRead(k, ok) ==
    LET d == worker_tasks[k].group.device_address_str IN
    /\ worker_tasks[k].pc = "rdp_read"
    /\ IF IsCached(object_info_cache, DeviceKey(d), DeviceProps)
       THEN /\ ok
            /\ worker_tasks' = [worker_tasks EXCEPT ![k].pc = "rop", ![k].rdp = "cached"]
            /\ UNCHANGED object_info_cache
       ELSE /\ bacnet_reader = "running"
            /\ worker_tasks' =
                 [worker_tasks EXCEPT ![k].pc = "rop",
                                      ![k].rdp = IF ok THEN "read" ELSE "error"]
            /\ object_info_cache' =
                 IF ok
                 THEN MergeIntoCache(object_info_cache, DeviceKey(d),
                                     ServedProps(d, "device", 0) \cap DeviceProps)
                 ELSE object_info_cache
    /\ UNCHANGED <<counts, deviceInfoCache, io_queue>>
    /\ worker_frame


\* application.py lines 425-504 with skip_when_cached: acked is the set of
\* chunks the device answers, the others end by a timeout or an error
ObjectsToRequest(cache, g) ==
    SelectSeq2(g.object_instances,
               {i \in SeqToSet(g.object_instances) :
                  ~IsCached(cache, <<g.device_address_str, g.object_type, i>>, ObjectProps)})

RequestObjectProperties(k, acked) ==
    LET g == worker_tasks[k].group
        todo == ObjectsToRequest(object_info_cache, g)
        cs == chunks(todo, ChunkSizeOr(g.chunk_size, PropertiesChunkSize))
        got == UNION {SeqToSet(cs[c]) : c \in acked}
    IN
    /\ worker_tasks[k].pc = "rop"
    /\ acked \subseteq DOMAIN cs
    /\ todo # <<>> => bacnet_reader = "running"
    /\ worker_tasks' = [worker_tasks EXCEPT ![k].pc = "build"]
    /\ object_info_cache' =
         MergeAll(object_info_cache, g.device_address_str, g.object_type, got)
    /\ UNCHANGED <<counts, deviceInfoCache, io_queue>>
    /\ worker_frame

MetricInstances_NoSkip(cache, g) == SeqToSet(g.object_instances)

\* lines 405-420: the instances that get a metric
MetricInstances(cache, g) ==
    {i \in SeqToSet(g.object_instances) :
       LET info == get_object_info(cache, g.device_address_str, g.object_type, i)
       IN info.found /\ {"objectName", "description"} \subseteq info.props}

AfterBuild_NoCheck(device_info, metric_instances) == "declare"

\* lines 377-462: where the worker is after the metrics are built.
\* device_info["objectName"] (line 388) and device_info["description"]
\* (line 449, evaluated for every instance that gets a metric) raise
\* KeyError when the cached bundle lacks the property.
AfterBuild(device_info, metric_instances) ==
    IF ~device_info.found THEN "failed"
    ELSE IF "objectName" \notin device_info.props THEN "crashed"
    ELSE IF metric_instances # {} /\ "description" \notin device_info.props THEN "crashed"
    ELSE "declare"

WorkerBuildMetrics(k) ==
    LET g == worker_tasks[k].group
        info == get_device_info(object_info_cache, deviceInfoCache,
                                g.device_address_str, g.device_identifier)
        insts == MetricInstances(object_info_cache, g)
        next == AfterBuild(info, insts)
    IN
    /\ worker_tasks[k].pc = "build"
    /\ worker_tasks' =
         [worker_tasks EXCEPT ![k].pc = next,
                              ![k].device_info = info,
                              ![k].metrics =
                                 IF next = "declare"
                                 THEN {WorkerMetricId(object_info_cache, g, i) : i \in insts}
                                 ELSE {}]
    /\ counts' = IF next = "failed" THEN [counts EXCEPT !.failed = @ + 1] ELSE counts
    /\ UNCHANGED <<object_info_cache, deviceInfoCache, io_queue>>
    /\ worker_frame

AfterDeclare_Continue(ok) == "poll"

\* lines 464-469: except RPCError: log, count the failure, return
AfterDeclare(ok) == IF ok THEN "poll" ELSE "failed"

\* lines 464-485: declare_metrics returns, or raises RPCError
WorkerDeclareMetrics(k, ok) ==
    /\ worker_tasks[k].pc = "declare"
    /\ worker_tasks' =
         [worker_tasks EXCEPT ![k].pc = AfterDeclare(ok),
                              ![k].declares = @ + 1]
    /\ counts' = IF ok THEN [counts EXCEPT !.running = @ + 1]
                 ELSE [counts EXCEPT !.failed = @ + 1]
    /\ UNCHANGED <<object_info_cache, deviceInfoCache, io_queue>>
    /\ worker_frame

\* application.py lines 506-548: one IOCB per chunk, deferred to the runner
\* thread in the order of the chunks
ValueRequests(g, poll) ==
    LET cs == chunks(g.object_instances, ChunkSizeOr(g.chunk_size, ValuesChunkSize))
    IN [c \in DOMAIN cs |->
          [device |-> g.device_address_str, object_type |-> g.object_type,
           group |-> g.object_instances, poll |-> poll, chunk |-> c, objects |-> cs[c]]]

\* lines 487-490: the top of the RUNNING loop
WorkerRequestValues(k) ==
    LET g == worker_tasks[k].group IN
    /\ worker_tasks[k].pc = "poll"
    /\ io_queue' = [io_queue EXCEPT ![g.device_address_str] =
                      @ \o ValueRequests(g, <<worker_tasks[k].gen, worker_tasks[k].polls + 1>>)]
    /\ worker_tasks' = [worker_tasks EXCEPT ![k].pc = "sleep", ![k].polls = @ + 1]
    /\ UNCHANGED <<counts, object_info_cache, deviceInfoCache>>
    /\ worker_frame

\* lines 521-529: what ends the wait_for on the shielded stop future
AfterSleep_Continue(stop_done) == "poll"

AfterSleep(stop_done) == IF stop_done THEN "stopped" ELSE "poll"

\* lines 527-529: the timeout expired and the stop future is not done
WorkerTimeout(k) ==
    /\ worker_tasks[k].pc = "sleep"
    /\ ~worker_stop_futures[k]
    /\ worker_tasks[k].polls < MaxPolls
    /\ worker_tasks' = [worker_tasks EXCEPT ![k].pc = AfterSleep(worker_stop_futures[k])]
    /\ UNCHANGED <<counts, object_info_cache, deviceInfoCache, io_queue>>
    /\ worker_frame

\* lines 524-526: the stop future is done
WorkerStopped(k) ==
    /\ worker_tasks[k].pc = "sleep"
    /\ worker_stop_futures[k]
    /\ worker_tasks' = [worker_tasks EXCEPT ![k].pc = AfterSleep(worker_stop_futures[k])]
    /\ UNCHANGED <<counts, object_info_cache, deviceInfoCache, io_queue>>
    /\ worker_frame


(***************************************************************************)
(* bacnet/application.py: the runner thread                                *)
(***************************************************************************)
NoItem ==
    [timestamp |-> 0, device_name |-> <<>>, device |-> "", object_type |-> "",
     group |-> <<>>, poll |-> <<0, 0>>, chunk |-> 0, names |-> <<>>, values |-> <<>>]


\* what a device answers for the presentValue of an object: a number, a
\* value that is no number (a character string), or a property access error,
\* which leaves the property out of the result (lines 187-198)
PresentValues == {<<"number", 21>>, <<"text", 0>>, <<"absent", 0>>}

\* every object answers with a number
NumericValues == [i \in Instances |-> <<"number", 21>>]

thread_frame ==
    UNCHANGED <<bacnet_reader, object_groups, device_config, worker_stop_futures,
                worker_tasks, counts, main_task_stop_future, task_pc, config_pc,
                config_arg, config_result, stop_pc, stop_waits, object_info_cache,
                history_vars, timed_vars, relay_vars, gateway_vars>>

\* lines 293-303: the I-Am of a device that was sent a Who-Is arrives while
\* the sender sleeps
do_IAmRequest(d) ==
    /\ bacnet_reader = "running"
    /\ thread_pc = "idle"
    /\ \E k \in DOMAIN worker_tasks :
         /\ worker_tasks[k].pc = "rdp_sleep"
         /\ worker_tasks[k].group.device_address_str = d
    /\ d \notin deviceInfoCache
    /\ deviceInfoCache' = deviceInfoCache \cup {d}
    /\ UNCHANGED <<io_queue, thread_pc, put_item, result_queue, unfinished_tasks>>
    /\ thread_frame

\* lines 262-271: the objects of the response whose objectName is cached
NamedObjects(cache, req) ==
    SelectSeq2(req.objects,
               {i \in SeqToSet(req.objects) :
                  LET info == get_object_info(cache, req.device, req.object_type, i)
                  IN info.found /\ "objectName" \in info.props})

\* lines 260-271: result_values, the bundle of every object of the response
\* whose objectName is cached, as the list of the dict's items
ResultValues(cache, req, pv) ==
    LET names == NamedObjects(cache, req)
    IN [n \in DOMAIN names |->
          [object_name |-> PropertyValue(req.device, req.object_type, names[n], "objectName"),
           presentValue |-> pv[names[n]]]]

\* lines 255-259: whether the device's objectName is cached
HasDeviceName(cache, known, d) ==
    /\ d \in known
    /\ DeviceKey(d) \in DOMAIN cache
    /\ "objectName" \in cache[DeviceKey(d)]

AfterSubmit_NoWait(submitted) == "idle"

\* source.py lines 321-328: after run_coroutine_threadsafe the thread waits
\* in fut.result()
AfterSubmit(submitted) == IF submitted THEN "putting" ELSE "idle"

\* lines 241-287: the IOCB at the head of the device's queue completes with
\* a response (ok) or an error; with a response and a cached device name
\* the thread calls put_result_in_source_queue and waits in fut.result()
\* (source.py lines 321-328); pv is the presentValue the device answers for
\* every object, and the tuple is made with Timestamp.now() (line 323)
CacheReadable_Locked(lock) == lock = "free"

\* application.py lines 255-266: the callback reads the cache with
\* self._object_info_cache.get(...), outside of the lock, whoever holds it
CacheReadable(lock) == TRUE

iocb_callback(d, ok, pv) ==
    LET req == Head(io_queue[d]) IN
    /\ bacnet_reader = "running"
    /\ thread_pc = "idle"
    /\ io_queue[d] # <<>>
    /\ CacheReadable(cache_lock)
    /\ io_queue' = [io_queue EXCEPT ![d] = Tail(@)]
    /\ IF ok /\ HasDeviceName(object_info_cache, deviceInfoCache, d)
       THEN /\ thread_pc' = AfterSubmit(TRUE)
            /\ put_item' = [timestamp |-> clock,
                            device_name |-> PropertyValue(d, "device", DeviceIdentifier(d),
                                                          "objectName"),
                            device |-> d, object_type |-> req.object_type,
                            group |-> req.group, poll |-> req.poll, chunk |-> req.chunk,
                            names |-> NamedObjects(object_info_cache, req),
                            values |-> ResultValues(object_info_cache, req, pv)]
       ELSE UNCHANGED <<thread_pc, put_item>>
    /\ UNCHANGED <<deviceInfoCache, result_queue, unfinished_tasks>>
    /\ thread_frame

QueuePut_Front(queue, item) == <<item>> \o queue

\* where queue.put appends (asyncio.Queue: at the tail)
QueuePut(queue, item) == Append(queue, item)

\* the poll and the chunk a result answers
ItemKey(item) == <<item.poll, item.chunk>>

PutFailed_Retry(queue, item) == QueuePut(queue, item)

\* source.py lines 327-330: fut.result() raised; the exception is logged
PutFailed(queue, item) == queue

\* source.py lines 321-330: the event loop runs the put and fut.result()
\* returns (ok), or fut.result() raises
put_result_in_source_queue(ok) ==
    /\ thread_pc = "putting"
    /\ result_queue' = IF ok THEN QueuePut(result_queue, put_item)
                       ELSE PutFailed(result_queue, put_item)
    /\ unfinished_tasks' = unfinished_tasks + (Len(result_queue') - Len(result_queue))
    /\ put_failed' = IF ok THEN put_failed ELSE put_failed \cup {ItemKey(put_item)}
    /\ put_item' = NoItem
    /\ thread_pc' = IF bacnet_reader = "running" THEN "idle" ELSE "exited"
    /\ UNCHANGED <<deviceInfoCache, io_queue, published, gateway_vars>>
    /\ UNCHANGED <<bacnet_reader, object_groups, device_config, worker_stop_futures,
                   worker_tasks, counts, main_task_stop_future, task_pc, config_pc,
                   config_arg, config_result, stop_pc, stop_waits, object_info_cache,
                   history_vars, timed_vars>>

(***************************************************************************)
(* source.py: task (lines 214-281)                                         *)
(***************************************************************************)
task_frame ==
    UNCHANGED <<bacnet_reader, object_groups, device_config, worker_stop_futures,
                worker_tasks, counts, main_task_stop_future, config_pc, config_arg,
                config_result, stop_pc, stop_waits, reader_vars, history_vars,
                timed_vars, relay_vars, gateway_vars>>

\* lines 229-271 and 279-281: a result is dequeued; the lookup of its device
\* in self._device_config (line 234) raises KeyError for an unknown address
task_dequeue ==
    LET item == Head(result_queue) IN
    /\ task_pc = "running"
    /\ result_queue # <<>>
    /\ result_queue' = Tail(result_queue)
    /\ IF item.device \in device_config
       THEN /\ unfinished_tasks' = unfinished_tasks - 1
            /\ task_pc' = IF main_task_stop_future THEN "stopped" ELSE "running"
       ELSE /\ task_pc' = "crashed"
            /\ UNCHANGED unfinished_tasks
    /\ UNCHANGED <<bacnet_reader, object_groups, device_config, worker_stop_futures,
                   worker_tasks, counts, main_task_stop_future, config_pc, config_arg,
                   config_result, stop_pc, stop_waits, reader_vars, history_vars>>

\* the iteration with the sends and the bookkeeping left out
task_get ==
    /\ task_dequeue
    /\ UNCHANGED <<timed_vars, relay_vars, gateway_vars>>

\* dict assignment d[key] = value
SetItem(d, key, value) == [k \in DOMAIN d \cup {key} |-> IF k = key THEN value ELSE d[k]]

IsNumber_Any(value) == value[1] # "absent"

\* lines 263-265: "presentValue" in object_result and isinstance(..., (int, float))
IsNumber(value) == value[1] = "number"

\* lines 243-268: the self.send calls for one result, in the order of the
\* items of result_values
RECURSIVE Sends(_, _, _)
Sends(values, device_name, timestamp) ==
    IF values = <<>> THEN <<>>
    ELSE (IF IsNumber(Head(values).presentValue)
          THEN <<(<<MetricIdOf(MetricIdTemplate, DisplayName(Head(values).object_name),
                               DisplayName(device_name)),
                    timestamp, Head(values).presentValue[2]>>)>>
          ELSE <<>>)
         \o Sends(Tail(values), device_name, timestamp)

\* line 269 after every send
RECURSIVE BookSends(_, _)
BookSends(last, sends) ==
    IF sends = <<>> THEN last
    ELSE BookSends(SetItem(last, Head(sends)[1], Head(sends)[2]), Tail(sends))

\* lines 229-271: the iteration with its sends and its bookkeeping
task_get_send ==
    LET item == Head(result_queue)
        sends == IF item.device \in device_config
                 THEN Sends(item.values, item.device_name, item.timestamp)
                 ELSE <<>>
    IN
    /\ task_dequeue
    /\ published' = sends
    /\ last_time_send_by_metric' = BookSends(last_time_send_by_metric, sends)
    /\ UNCHANGED <<clock, interval, nan_at_timeout, deadline, deadline0, now, sent,
                   in_flight, stamped, polls_at_deadline, last_check, put_failed,
                   gateway_vars>>

\* lines 279-281: the stop future is done and no result is ready; a put the
\* runner thread has handed to the event loop runs before the task wakes
task_stop ==
    /\ task_pc = "running"
    /\ main_task_stop_future
    /\ result_queue = <<>>
    /\ thread_pc # "putting"
    /\ task_pc' = "stopped"
    /\ UNCHANGED <<result_queue, unfinished_tasks>>
    /\ task_frame

(***************************************************************************)
(* The orchestrator                                                        *)
(***************************************************************************)
NoCheck == [at |-> -1, age |-> 0, nans |-> 0, value_since |-> FALSE]

NoSend == [m \in {} |-> 0]

TimedIdle ==
    /\ clock = 0 /\ interval = 1 /\ nan_at_timeout = FALSE
    /\ deadline = 0 /\ deadline0 = 0 /\ now = 0
    /\ last_time_send_by_metric = NoSend /\ sent = <<>>
    /\ in_flight = 0 /\ stamped = <<>>
    /\ polls_at_deadline = 0 /\ last_check = NoCheck

RelayIdle == published = <<>> /\ put_failed = {}

NoCalls == [site \in {} |-> 0]

NoChunkCall == [fn |-> "none"]

\* the disk cache file as the run found it
DiskCacheFile(cache) == [written |-> FALSE, cache |-> cache]

GatewayIdle ==
    /\ calls = NoCalls /\ cache_lock = "free"
    /\ disk_cache_file = DiskCacheFile(EmptyCache)
    /\ chunk_call = NoChunkCall /\ chunk_out = <<>>

Init ==
    /\ bacnet_reader = "none"
    /\ object_groups = <<>>
    /\ device_config = {}
    /\ worker_stop_futures = <<>>
    /\ worker_tasks = <<>>
    /\ counts = [expected |-> 0, starting |-> 0, running |-> 0, failed |-> 0]
    /\ result_queue = <<>>
    /\ unfinished_tasks = 0
    /\ main_task_stop_future = FALSE
    /\ task_pc = "running"
    /\ config_pc = "idle"
    /\ config_arg = <<>>
    /\ config_result = "none"
    /\ stop_pc = "idle"
    /\ stop_waits = 0
    /\ object_info_cache \in {EmptyCache, DiskCache}
    /\ deviceInfoCache = {}
    /\ io_queue = [d \in Devices |-> <<>>]
    /\ thread_pc = "idle"
    /\ put_item = NoItem
    /\ reloads = 0
    /\ stop_log = <<>>
    /\ TimedIdle
    /\ RelayIdle
    /\ GatewayIdle

Next ==
    \/ \E config \in Configs : OnConfigBegin(config)
    \/ OnConfigResume
    \/ StopBegin
    \/ StopResume
    \/ StopJoined
    \/ \E k \in DOMAIN worker_tasks : WorkerStart(k)
    \/ \E k \in DOMAIN worker_tasks : RequestDevicePropertiesBegin(k)
    \/ \E k \in DOMAIN worker_tasks : RequestDevicePropertiesWhoIs(k)
    \/ \E k \in DOMAIN worker_tasks : RequestDevicePropertiesWake(k)
    \/ \E k \in DOMAIN worker_tasks, ok \in BOOLEAN : RequestDevicePropertiesRead(k, ok)
    \/ \E k \in DOMAIN worker_tasks, acked \in SUBSET (1..2) : RequestObjectProperties(k, acked)
    \/ \E k \in DOMAIN worker_tasks : WorkerBuildMetrics(k)
    \/ \E k \in DOMAIN worker_tasks, ok \in BOOLEAN : WorkerDeclareMetrics(k, ok)
    \/ \E k \in DOMAIN worker_tasks : WorkerRequestValues(k)
    \/ \E k \in DOMAIN worker_tasks : WorkerTimeout(k)
    \/ \E k \in DOMAIN worker_tasks : WorkerStopped(k)
    \/ \E d \in Devices : do_IAmRequest(d)
    \/ \E d \in Devices, ok \in BOOLEAN : iocb_callback(d, ok, NumericValues)
    \/ put_result_in_source_queue(TRUE)
    \/ task_get
    \/ task_stop

Spec == Init /\ [][Next]_vars

\* every step of a worker task: the event loop runs a task that is ready, an
\* executor thread runs its blocking call, a sleep or a timeout expires
WorkerStep(k) ==
    /\ k \in DOMAIN worker_tasks
    /\ \/ WorkerStart(k)
       \/ RequestDevicePropertiesBegin(k)
       \/ RequestDevicePropertiesWhoIs(k)
       \/ RequestDevicePropertiesWake(k)
       \/ \E ok \in BOOLEAN : RequestDevicePropertiesRead(k, ok)
       \/ \E acked \in SUBSET (1..2) : RequestObjectProperties(k, acked)
       \/ WorkerBuildMetrics(k)
       \/ \E ok \in BOOLEAN : WorkerDeclareMetrics(k, ok)
       \/ WorkerRequestValues(k)
       \/ WorkerStopped(k)

WorkerIds == UNION {DOMAIN ParseObjectGroups(config) : config \in ValidConfigs}

\* the configurations delivered under FairSpec
FairConfigs == {CfgTwoDevices, CfgOther}

FairNext ==
    \/ \E config \in FairConfigs : OnConfigBegin(config)
    \/ OnConfigResume
    \/ StopBegin
    \/ StopResume
    \/ StopJoined
    \/ \E k \in DOMAIN worker_tasks : WorkerStart(k)
    \/ \E k \in DOMAIN worker_tasks : RequestDevicePropertiesBegin(k)
    \/ \E k \in DOMAIN worker_tasks : RequestDevicePropertiesWhoIs(k)
    \/ \E k \in DOMAIN worker_tasks : RequestDevicePropertiesWake(k)
    \/ \E k \in DOMAIN worker_tasks, ok \in BOOLEAN : RequestDevicePropertiesRead(k, ok)
    \/ \E k \in DOMAIN worker_tasks, acked \in SUBSET (1..2) : RequestObjectProperties(k, acked)
    \/ \E k \in DOMAIN worker_tasks : WorkerBuildMetrics(k)
    \/ \E k \in DOMAIN worker_tasks, ok \in BOOLEAN : WorkerDeclareMetrics(k, ok)
    \/ \E k \in DOMAIN worker_tasks : WorkerRequestValues(k)
    \/ \E k \in DOMAIN worker_tasks : WorkerTimeout(k)
    \/ \E k \in DOMAIN worker_tasks : WorkerStopped(k)
    \/ \E d \in Devices : do_IAmRequest(d)
    \/ \E d \in Devices, ok \in BOOLEAN : iocb_callback(d, ok, NumericValues)
    \/ put_result_in_source_queue(TRUE)
    \/ task_get
    \/ task_stop

FairSpec == Init /\ [][FairNext]_vars /\ \A k \in WorkerIds : WF_vars(WorkerStep(k))

(***************************************************************************)
(* Properties of the orchestrator (Spec, FairSpec)                         *)
(***************************************************************************)
\* the k-th worker task before and after the step is the same task
SameWorker(k) ==
    /\ k \in DOMAIN worker_tasks
    /\ k \in DOMAIN worker_tasks'
    /\ worker_tasks'[k].gen = worker_tasks[k].gen

WEdges ==
    {<<"PENDING", "STARTING">>, <<"STARTING", "DISCOVERING">>,
     <<"DISCOVERING", "RUNNING">>, <<"RUNNING", "STOPPED">>,
     <<"DISCOVERING", "FAILED">>}

\* C1: Every step of a worker task keeps its state or moves it along
\* PENDING -> STARTING -> DISCOVERING -> RUNNING -> STOPPED or from
\* DISCOVERING to FAILED (so STOPPED and FAILED are left by no step), and a
\* step that issues a value poll starts in RUNNING.
C1_StateMachine ==
    [][\A k \in DOMAIN worker_tasks :
         SameWorker(k) =>
           /\ \/ WState(worker_tasks'[k]) = WState(worker_tasks[k])
              \/ <<WState(worker_tasks[k]), WState(worker_tasks'[k])>> \in WEdges
           /\ worker_tasks'[k].polls # worker_tasks[k].polls
                => WState(worker_tasks[k]) = "RUNNING"]_vars

\* the instance numbers a range string stands for
InstancesOf(range_str) ==
    UNION {IF Len(range_str[p]) = 2 THEN range_str[p][1]..range_str[p][2]
           ELSE {range_str[p][1]} : p \in DOMAIN range_str}

\* two object groups of one device and one object type share an instance
HasDuplicateObjects(config) ==
    \E d \in DOMAIN config :
      \E i, j \in DOMAIN config[d].objectGroups :
        /\ i < j
        /\ config[d].objectGroups[i].objectType = config[d].objectGroups[j].objectType
        /\ InstancesOf(config[d].objectGroups[i].objectInstance)
             \cap InstancesOf(config[d].objectGroups[j].objectInstance) # {}

\* the step in which the _on_config call for config returns or raises
ReloadEnds(config) ==
    \/ OnConfigBegin(config) /\ config_pc' = "idle"
    \/ OnConfigResume /\ config_arg = config

\* C2: The _on_config call for a configuration in which two object groups
\* of one device and one object type share an instance number ends with an
\* error, and it creates no worker task: the list of worker tasks is what it
\* was.
C2_DuplicatesRejected ==
    [][\A config \in Configs :
         (HasDuplicateObjects(config) /\ ReloadEnds(config)) =>
           /\ config_result' \in {"rejected", "invalid_state"}
           /\ worker_tasks' = worker_tasks]_vars

\* the configuration whose second and third group overlap has been rejected
\* while the workers of the configuration before it exist
C2_Witness ==
    /\ config_result = "rejected"
    /\ object_groups = ParseObjectGroups(CfgOverlapLate)
    /\ reloads = 2
    /\ worker_tasks # <<>>

\* C3: An _on_config call for a configuration with such a configuration
\* error sets the stop future of no worker of the previous configuration
\* and does not wait for their tasks.
C3_PreviousWorkersUntouched ==
    [][\A config \in Configs :
         (HasDuplicateObjects(config) /\ OnConfigBegin(config)) =>
           /\ worker_stop_futures' = worker_stop_futures
           /\ config_pc' # "waiting"]_vars


\* the poll a request or a result belongs to, and its object group
PollKey(x) == [device |-> x.device, object_type |-> x.object_type, group |-> x.group,
               poll |-> x.poll]

\* the requests not yet answered and the results not yet dequeued
OnTheWay ==
    {PollKey(result_queue[n]) : n \in DOMAIN result_queue}
    \cup (IF thread_pc = "putting" THEN {PollKey(put_item)} ELSE {})
    \cup UNION {{PollKey(io_queue[d][n]) : n \in DOMAIN io_queue[d]} : d \in Devices}

\* poll p was requested before poll q
Earlier(p, q) == p[1] < q[1] \/ (p[1] = q[1] /\ p[2] < q[2])

\* C6: When the dispatch task dequeues a result, no request or result of an
\* earlier poll of the same device and object group is still on its way to
\* it: results of one group are dequeued in the order of their polls.
C6_RequestOrder ==
    [][(result_queue # <<>> /\ result_queue' = Tail(result_queue)) =>
         \A a \in OnTheWay' :
           (/\ a.device = Head(result_queue).device
            /\ a.object_type = Head(result_queue).object_type
            /\ a.group = Head(result_queue).group)
           => ~Earlier(a.poll, Head(result_queue).poll)]_vars

\* results of two polls of one group wait in the queue, the earlier first
C6_Witness ==
    /\ Len(result_queue) >= 2
    /\ result_queue[1].device = result_queue[2].device
    /\ result_queue[1].group = result_queue[2].group
    /\ Earlier(result_queue[1].poll, result_queue[2].poll)
    /\ task_pc = "running"

StopOrder == <<"signal", "await", "reader", "join", "main_stop">>

IsPrefix(s, t) == Len(s) <= Len(t) /\ SubSeq(t, 1, Len(s)) = s

\* the step of stop() named step completes in this step of the model
Completes(step) == step \in SeqToSet(stop_log') \ SeqToSet(stop_log)

C8_StopAtSleep ==
    /\ [][\A k \in DOMAIN worker_tasks :
            SameWorker(k) =>
              /\ (/\ worker_tasks[k].pc = "sleep"
                  /\ worker_stop_futures[k]
                  /\ worker_tasks'[k] # worker_tasks[k])
                 => /\ worker_tasks'[k].pc = "stopped"
                    /\ worker_tasks'[k].polls = worker_tasks[k].polls
              /\ (worker_tasks'[k].pc = "stopped" /\ worker_tasks[k].pc # "stopped")
                 => worker_tasks[k].pc = "sleep" /\ worker_stop_futures[k]
              /\ worker_stop_futures'[k] # worker_stop_futures[k]
                 => worker_tasks'[k] = worker_tasks[k]]_vars
    /\ \A k \in WorkerIds :
         (k \in DOMAIN worker_stop_futures /\ worker_stop_futures[k])
           ~> (k \notin DOMAIN worker_tasks \/ worker_tasks[k].pc \in Terminal)

\* a worker stopped from its wait, and one whose stop future was set during
\* its discovery
C8_Witness ==
    /\ \E k \in DOMAIN worker_tasks :
         worker_tasks[k].pc = "stopped" /\ worker_tasks[k].polls = 1
    /\ \E k \in DOMAIN worker_tasks :
         worker_tasks[k].pc = "rop" /\ worker_stop_futures[k]

PastBuild == {"declare", "poll", "sleep", "stopped", "failed", "crashed"}

\* C9: A worker for which get_device_info returned nothing is FAILED when
\* it has looked: it has made no declare_metrics call and no request_values
\* call, and the failed count was incremented in that step.
C9_MissingDeviceInfo ==
    [][\A k \in DOMAIN worker_tasks :
         (SameWorker(k) /\ worker_tasks'[k].pc \in PastBuild
            /\ ~worker_tasks'[k].device_info.found) =>
           /\ worker_tasks'[k].pc = "failed"
           /\ worker_tasks'[k].declares = 0
           /\ worker_tasks'[k].polls = 0
           /\ worker_tasks[k].pc = "build" => counts'.failed = counts.failed + 1]_vars

\* the device answered the Who-Is, its properties could not be read
C9_Witness ==
    \E k \in DOMAIN worker_tasks :
      /\ worker_tasks[k].pc = "failed"
      /\ worker_tasks[k].rdp = "error"
      /\ ~worker_tasks[k].device_info.found
      /\ counts.failed >= 1

\* request_device_properties gave up: the Who-Is retries are used up, or
\* the read of the device's properties ended by a timeout or an error
GaveUp(w) == w.rdp \in {"not_found", "error"}

\* the cache holds no bundle for the device of the worker, under the
\* identifier the device announced or else the configured one
NoDeviceBundle(w) ==
    LET d == w.group.device_address_str
        id == IF d \in deviceInfoCache THEN DeviceIdentifier(d)
              ELSE w.group.device_identifier
    IN <<d, "device", id>> \notin DOMAIN object_info_cache

\* the step in which worker k looks the device info up and builds its metrics
BuildStep(k) ==
    /\ SameWorker(k)
    /\ worker_tasks[k].pc = "build"
    /\ worker_tasks'[k].pc # "build"

\* what the claim says of the worker that gave up
EndsFailed(k) ==
    /\ worker_tasks'[k].pc = "failed"
    /\ worker_tasks'[k].polls = 0
    /\ counts'.failed = counts.failed + 1
    /\ \A j \in DOMAIN worker_tasks : j # k => worker_tasks'[j] = worker_tasks[j]
    /\ task_pc' = task_pc

\* C10: When request_device_properties gave up for a worker's device and
\* the cache holds no bundle for the device (under the announced or else the
\* configured identifier), the worker becomes FAILED in its next step, the
\* failed count is incremented, the other workers and the dispatch task are
\* as they were; it has not polled, and FAILED is left by no step.
C10_GaveUpFails ==
    [][\A k \in DOMAIN worker_tasks :
         /\ (BuildStep(k) /\ GaveUp(worker_tasks[k]) /\ NoDeviceBundle(worker_tasks[k]))
              => EndsFailed(k)
         /\ (SameWorker(k) /\ worker_tasks[k].pc = "failed")
              => worker_tasks'[k] = worker_tasks[k]]_vars

\* the Who-Is retries of one device are used up while the worker of the
\* other device is RUNNING
C10_Witness ==
    /\ Len(worker_tasks) = 2
    /\ worker_tasks[2].pc = "failed"
    /\ worker_tasks[2].rdp = "not_found"
    /\ worker_tasks[1].pc = "sleep"
    /\ counts.failed = 1
    /\ task_pc = "running"

\* C10 as stated: whenever request_device_properties gave up, the worker
\* becomes FAILED.
C10_AsStated ==
    [][\A k \in DOMAIN worker_tasks :
         /\ (BuildStep(k) /\ GaveUp(worker_tasks[k])) => EndsFailed(k)
         /\ (SameWorker(k) /\ worker_tasks[k].pc = "failed")
              => worker_tasks'[k] = worker_tasks[k]]_vars

\* the step in which the declare_metrics call of worker k raises RPCError
DeclareFails(k) ==
    /\ SameWorker(k)
    /\ worker_tasks[k].pc = "declare"
    /\ worker_tasks'[k].declares = worker_tasks[k].declares + 1
    /\ counts'.running = counts.running

\* C11: The step in which declare_metrics fails for a worker makes that
\* worker FAILED with no request_values call made, and a FAILED worker makes
\* none later; the step increments the failed count and leaves the other
\* counts, every other worker (its state, its metrics, its polls), the
\* requests on their way to the devices and the dispatch task as they were.
C11_DeclareFailure ==
    [][\A k \in DOMAIN worker_tasks :
         /\ DeclareFails(k) =>
              /\ worker_tasks'[k].pc = "failed"
              /\ worker_tasks'[k].polls = 0
              /\ counts' = [counts EXCEPT !.failed = @ + 1]
              /\ \A j \in DOMAIN worker_tasks : j # k => worker_tasks'[j] = worker_tasks[j]
              /\ worker_stop_futures' = worker_stop_futures
              /\ io_queue' = io_queue
              /\ result_queue' = result_queue
              /\ task_pc' = task_pc
         /\ (SameWorker(k) /\ worker_tasks[k].pc = "failed")
              => worker_tasks'[k].polls = worker_tasks[k].polls]_vars

\* declare_metrics failed for the worker of one device after the worker of
\* the other device had polled; that worker polls again
C11_Witness ==
    /\ Len(worker_tasks) = 2
    /\ worker_tasks[2].pc = "failed"
    /\ worker_tasks[2].declares = 1
    /\ worker_tasks[2].polls = 0
    /\ worker_tasks[1].polls = 2
    /\ counts.failed = 1
    /\ counts.running = 1

\* the cache holds the objectName and the description of instance i of g
HasObjectInfo(g, i) ==
    LET key == <<g.device_address_str, g.object_type, i>>
    IN /\ key \in DOMAIN object_info_cache
       /\ "objectName" \in object_info_cache[key]
       /\ "description" \in object_info_cache[key]

WithObjectInfo(g) == {i \in SeqToSet(g.object_instances) : HasObjectInfo(g, i)}

ResultsWaiting ==
    result_queue \o (IF thread_pc = "putting" THEN <<put_item>> ELSE <<>>)

\* C15: No two results belong to one poll of one object group: a
\* request_values call gives at most one result, into however many chunks
\* it splits the objects.
C15_OneResultPerPoll ==
    \A m, n \in DOMAIN ResultsWaiting :
      m # n => PollKey(ResultsWaiting[m]) # PollKey(ResultsWaiting[n])

\* C18: task() ends only by the break of line 281, with the main stop
\* future done, and only when no result is in the queue, on its way into
\* it or dequeued without task_done().
C18_ExitAfterDrain ==
    /\ task_pc \in {"running", "stopped"}
    /\ task_pc = "stopped" =>
         /\ main_task_stop_future
         /\ result_queue = <<>>
         /\ thread_pc # "putting"
         /\ unfinished_tasks = 0

\* C19: When the join of the runner thread timed out, stop() has not gone
\* on: it does not join the queue and does not set the main stop future.
C19_JoinTimeoutFatal ==
    bacnet_reader = "join_timeout" =>
      /\ ~main_task_stop_future
      /\ stop_pc \notin {"joining", "done"}
      /\ "join" \notin SeqToSet(stop_log)

\* the k-th worker task is the one created by the gen-th reload and is in
\* one of the states
WorkerIn(k, gen, states) ==
    /\ k \in DOMAIN worker_tasks
    /\ worker_tasks[k].gen = gen
    /\ WState(worker_tasks[k]) \in states

\* C20: Under the fairness of the worker steps, every worker task that is
\* STARTING or DISCOVERING becomes RUNNING or FAILED (and may be STOPPED
\* after it was RUNNING), whatever the devices of the other workers do.
C20_DiscoveryEnds ==
    \A k \in WorkerIds, gen \in 1..MaxReloads :
      WorkerIn(k, gen, {"STARTING", "DISCOVERING"})
        ~> WorkerIn(k, gen, {"RUNNING", "FAILED", "STOPPED"})

(***************************************************************************)
(* source.py: the RUNNING loop of _worker_task over a clock (lines 485-529) *)
(* for one worker with one declared metric, with the dispatch of its       *)
(* results (task, lines 229-271).                                          *)
(***************************************************************************)
\* the clock stops here
MaxTime == 8
\* the intervals of the modelled object group: 1..MaxInterval
MaxInterval == 2
\* results waiting in the queue
MaxStamped == 1
\* value requests counted as outstanding; one issued beyond them is taken
\* to end unanswered
MaxInFlight == 1

CfgTimed == <<Dev("d1", 0, 0, <<Grp("analogInput", <<(<<1>>)>>)>>)>>

\* how many intervals before the loop is entered an earlier worker may have
\* sent its last value of the metric
LongAgo == 10

\* the metric of instance 1, the only one the worker declares
Metric == 1

\* line 496: 6 * interval
NanAfterIntervals == 6

\* line 497: 5 * interval
NanOffsetIntervals == 5

\* line 495: self._last_time_send_by_metric.get(metric_id, now)
LastTimestamp(last, metric_id, t) == IF metric_id \in DOMAIN last THEN last[metric_id] ELSE t

\* line 496
NanDue(last_timestamp, t, iv) == t - last_timestamp >= NanAfterIntervals * iv

\* line 497
TimestampNan_NoOffset(last_timestamp, iv) == last_timestamp

TimestampNan(last_timestamp, iv) == last_timestamp + NanOffsetIntervals * iv

\* lines 508-517: while now >= deadline: deadline += interval
RECURSIVE AdvanceDeadline(_, _, _)
AdvanceDeadline(d, t, iv) == IF t >= d THEN AdvanceDeadline(d + iv, t, iv) ELSE d

\* lines 506-517
NextDeadline_NoCatchUp(d, t, iv) == IF t >= d + iv THEN d + iv + iv ELSE d + iv

NextDeadline(d, t, iv) == AdvanceDeadline(d + iv, t, iv)

timed_frame ==
    UNCHANGED <<bacnet_reader, object_groups, device_config, result_queue,
                unfinished_tasks, main_task_stop_future, task_pc, config_pc, config_arg,
                config_result, stop_pc, stop_waits, reader_vars, history_vars,
                interval, nan_at_timeout, relay_vars, gateway_vars>>

\* time passes where the loop awaits: in self.send (line 498) and in
\* wait_for (line 521); the statements between take no time on this clock
Tick ==
    /\ clock < MaxTime
    /\ worker_tasks[1].pc \in {"advance", "sleep"}
    /\ clock' = clock + 1
    /\ UNCHANGED <<worker_stop_futures, worker_tasks, counts, deadline, deadline0, now,
                   last_time_send_by_metric, sent, in_flight, stamped,
                   polls_at_deadline, last_check>>
    /\ timed_frame

\* lines 464-486: declare_metrics returned; deadline = Timestamp.now()
TimedStart ==
    /\ worker_tasks[1].pc = "declare"
    /\ worker_tasks' = [worker_tasks EXCEPT ![1].pc = "poll", ![1].declares = @ + 1]
    /\ counts' = [counts EXCEPT !.running = @ + 1]
    /\ deadline' = clock
    /\ deadline0' = clock
    /\ UNCHANGED <<worker_stop_futures, clock, now, last_time_send_by_metric, sent,
                   in_flight, stamped, polls_at_deadline, last_check>>
    /\ timed_frame

\* lines 487-490
TimedRequestValues ==
    /\ worker_tasks[1].pc = "poll"
    /\ worker_tasks' =
         [worker_tasks EXCEPT ![1].pc = "nan",
                              ![1].polls = IF @ < MaxPolls THEN @ + 1 ELSE @]
    /\ in_flight' = IF in_flight < MaxInFlight THEN in_flight + 1 ELSE in_flight
    /\ polls_at_deadline' = polls_at_deadline + 1
    /\ UNCHANGED <<worker_stop_futures, counts, clock, deadline, deadline0, now,
                   last_time_send_by_metric, sent, stamped, last_check>>
    /\ timed_frame

\* lines 492-505 for the one metric of the worker
TimedNanCheck ==
    LET last_timestamp == LastTimestamp(last_time_send_by_metric, Metric, clock)
        due == nan_at_timeout /\ NanDue(last_timestamp, clock, interval)
        timestamp_nan == TimestampNan(last_timestamp, interval)
    IN
    /\ worker_tasks[1].pc = "nan"
    /\ worker_tasks' = [worker_tasks EXCEPT ![1].pc = "advance"]
    /\ sent' = IF due THEN Append(sent, timestamp_nan) ELSE sent
    /\ last_time_send_by_metric' =
         IF due THEN SetItem(last_time_send_by_metric, Metric, timestamp_nan)
         ELSE last_time_send_by_metric
    /\ last_check' =
         IF nan_at_timeout
         THEN [at |-> clock, age |-> clock - last_timestamp,
               nans |-> IF due THEN 1 ELSE 0, value_since |-> FALSE]
         ELSE last_check
    /\ UNCHANGED <<worker_stop_futures, counts, clock, deadline, deadline0, now,
                   in_flight, stamped, polls_at_deadline>>
    /\ timed_frame

\* lines 506-520: the deadline moves and the timeout of the wait is computed
TimedAdvance ==
    /\ worker_tasks[1].pc = "advance"
    /\ worker_tasks' = [worker_tasks EXCEPT ![1].pc = "sleep"]
    /\ now' = clock
    /\ deadline' = NextDeadline(deadline, clock, interval)
    /\ polls_at_deadline' = 0
    /\ UNCHANGED <<worker_stop_futures, counts, clock, deadline0,
                   last_time_send_by_metric, sent, in_flight, stamped, last_check>>
    /\ timed_frame

\* lines 521-529: the timeout deadline - now expired
TimedTimeout ==
    /\ worker_tasks[1].pc = "sleep"
    /\ clock >= deadline
    /\ ~worker_stop_futures[1]
    /\ worker_tasks' = [worker_tasks EXCEPT ![1].pc = AfterSleep(worker_stop_futures[1])]
    /\ UNCHANGED <<worker_stop_futures, counts, clock, deadline, deadline0, now,
                   last_time_send_by_metric, sent, in_flight, stamped,
                   polls_at_deadline, last_check>>
    /\ timed_frame

\* lines 524-526: the stop future is done
TimedStopped ==
    /\ worker_tasks[1].pc = "sleep"
    /\ worker_stop_futures[1]
    /\ worker_tasks' = [worker_tasks EXCEPT ![1].pc = AfterSleep(worker_stop_futures[1])]
    /\ UNCHANGED <<worker_stop_futures, counts, clock, deadline, deadline0, now,
                   last_time_send_by_metric, sent, in_flight, stamped,
                   polls_at_deadline, last_check>>
    /\ timed_frame

\* lines 287-288 (or 72-73): the worker's stop future is set
TimedSetStop ==
    /\ ~worker_stop_futures[1]
    /\ worker_stop_futures' = [worker_stop_futures EXCEPT ![1] = TRUE]
    /\ UNCHANGED <<worker_tasks, counts, clock, deadline, deadline0, now,
                   last_time_send_by_metric, sent, in_flight, stamped,
                   polls_at_deadline, last_check>>
    /\ timed_frame

\* application.py lines 241-275 with source.py lines 321-326: a value request
\* is answered and the result is queued with Timestamp.now(); or it ends by
\* an error or a timeout (lines 277-287) and nothing is queued
TimedResponse(ok) ==
    /\ in_flight > 0
    /\ ok => Len(stamped) < MaxStamped
    /\ in_flight' = in_flight - 1
    /\ stamped' = IF ok THEN Append(stamped, clock) ELSE stamped
    /\ UNCHANGED <<worker_stop_futures, worker_tasks, counts, clock, deadline,
                   deadline0, now, last_time_send_by_metric, sent, polls_at_deadline,
                   last_check>>
    /\ timed_frame

\* source.py lines 229-271: the dispatch task sends the value of the result
\* with the result's timestamp
TimedDispatch ==
    /\ stamped # <<>>
    /\ stamped' = Tail(stamped)
    /\ last_time_send_by_metric' = SetItem(last_time_send_by_metric, Metric, Head(stamped))
    /\ last_check' = IF last_check.at >= 0 THEN [last_check EXCEPT !.value_since = TRUE]
                     ELSE last_check
    /\ UNCHANGED <<worker_stop_futures, worker_tasks, counts, clock, deadline,
                   deadline0, now, sent, in_flight, polls_at_deadline>>
    /\ timed_frame

\* the worker of CfgTimed has finished its discovery at time 0; a worker of
\* an earlier configuration may have sent a value of the metric, just now or
\* LongAgo intervals ago (self._last_time_send_by_metric outlives a reload)
InitTimed ==
    /\ bacnet_reader = "running"
    /\ object_groups = ParseObjectGroups(CfgTimed)
    /\ device_config = ParseDeviceConfig(CfgTimed)
    /\ worker_stop_futures = <<FALSE>>
    /\ worker_tasks =
         <<[NewWorker(ParseObjectGroups(CfgTimed)[1], 1) EXCEPT
              !.pc = "declare", !.metrics = {Metric},
              !.device_info = [found |-> TRUE, props |-> DeviceProps]]>>
    /\ counts = [expected |-> 1, starting |-> 1, running |-> 0, failed |-> 0]
    /\ result_queue = <<>>
    /\ unfinished_tasks = 0
    /\ main_task_stop_future = FALSE
    /\ task_pc = "running"
    /\ config_pc = "idle"
    /\ config_arg = <<>>
    /\ config_result = "accepted"
    /\ stop_pc = "idle"
    /\ stop_waits = 0
    /\ object_info_cache = DiskCache
    /\ deviceInfoCache = {"d1"}
    /\ io_queue = [d \in Devices |-> <<>>]
    /\ thread_pc = "idle"
    /\ put_item = NoItem
    /\ reloads = 1
    /\ stop_log = <<>>
    /\ clock = 0
    /\ interval \in 1..MaxInterval
    /\ nan_at_timeout \in BOOLEAN
    /\ deadline = 0 /\ deadline0 = 0 /\ now = 0
    /\ last_time_send_by_metric \in
         {NoSend, SetItem(NoSend, Metric, 0), SetItem(NoSend, Metric, 0 - LongAgo * interval)}
    /\ sent = <<>>
    /\ in_flight = 0
    /\ stamped = <<>>
    /\ polls_at_deadline = 0
    /\ last_check = NoCheck
    /\ RelayIdle
    /\ GatewayIdle

NextTimed ==
    \/ Tick
    \/ TimedStart
    \/ TimedRequestValues
    \/ TimedNanCheck
    \/ TimedAdvance
    \/ TimedTimeout
    \/ TimedStopped
    \/ TimedSetStop
    \/ \E ok \in BOOLEAN : TimedResponse(ok)
    \/ TimedDispatch

SpecTimed == InitTimed /\ [][NextTimed]_vars

(***************************************************************************)
(* Properties of the RUNNING loop over the clock (SpecTimed)               *)
(***************************************************************************)
\* C4: When the loop waits after it moved the deadline, the deadline is not
\* before the now it was compared with and is a positive whole multiple of
\* the interval away from the deadline the loop was entered with; between
\* two moves of the deadline exactly one request_values call is made, however
\* many intervals were missed.
C4_DeadlineAdvance ==
    LET pc == worker_tasks[1].pc IN
    /\ pc = "sleep" =>
         /\ deadline >= now
         /\ deadline - deadline0 >= interval
         /\ (deadline - deadline0) % interval = 0
    /\ pc \in {"nan", "advance"} => polls_at_deadline = 1
    /\ pc \in {"poll", "sleep", "stopped"} => polls_at_deadline = 0

\* an iteration that missed two deadlines and more, after the only poll
C4_Witness ==
    /\ worker_tasks[1].pc = "sleep"
    /\ worker_tasks[1].polls = 1
    /\ deadline - deadline0 >= 3 * interval
    /\ now >= deadline0 + 2 * interval

NanCheckStep == worker_tasks[1].pc = "nan" /\ worker_tasks'[1].pc = "advance"

\* the check of a metric whose last send is at least 6 intervals old sends
\* one NaN sample at last + 5 * interval and books that timestamp
NanEmission ==
    (/\ NanCheckStep
     /\ nan_at_timeout
     /\ Metric \in DOMAIN last_time_send_by_metric
     /\ clock - last_time_send_by_metric[Metric] >= 6 * interval)
    => /\ sent' = Append(sent, last_time_send_by_metric[Metric] + 5 * interval)
       /\ last_time_send_by_metric'[Metric] = last_time_send_by_metric[Metric] + 5 * interval

\* the check one interval after a check that sent a NaN sample, with no
\* value sent in between
NextCheckAfterNan ==
    /\ NanCheckStep
    /\ last_check.at >= 0
    /\ last_check.nans = 1
    /\ ~last_check.value_since
    /\ clock = last_check.at + interval

\* C5: For the metric of a group with nan_at_timeout whose last send is at
\* least 6 intervals old, the check sends exactly one NaN sample with the
\* timestamp last + 5 * interval and books that timestamp as the last send;
\* if the last send was less than 10 intervals old, the next check, one
\* interval later with no value sent in between, sends no NaN sample.
C5_OneSentinel ==
    [][/\ NanEmission
       /\ (NextCheckAfterNan /\ last_check.age < 10 * interval) => sent' = sent]_vars

\* the second check has run, one interval after the NaN sample of the first
C5_Witness ==
    /\ nan_at_timeout
    /\ interval = 1
    /\ Len(sent) = 1
    /\ last_check.at = sent[1] + 2
    /\ last_check.nans = 0
    /\ ~last_check.value_since
    /\ last_time_send_by_metric[Metric] = sent[1]

\* C5 as stated: whatever the age of the last send (at least 6 intervals),
\* the next check sends no second NaN sample.
C5_AsStated ==
    [][/\ NanEmission
       /\ NextCheckAfterNan => sent' = sent]_vars

(***************************************************************************)
(* The relay of the results of one RUNNING worker over the clock: the      *)
(* runner thread's callback (application.py lines 241-287), the put into   *)
(* the queue (source.py lines 318-330) and the iteration of task() with    *)
(* its sends (lines 229-271).                                              *)
(***************************************************************************)
\* the clock stops here
MaxRelayTime == 2

\* one object group with the range "1,3"
CfgRelay == <<Dev("d1", 0, 0, <<Grp("analogInput", <<(<<1>>), (<<3>>)>>)>>)>>

\* the disk cache file of an earlier run that knew the device and both objects
CacheRelay ==
    (DeviceKey("d1") :> DeviceProps)
    @@ (<<"d1", "analogInput", 1>> :> ObjectProps)
    @@ (<<"d1", "analogInput", 3>> :> ObjectProps)

\* a disk cache file that holds a vendor specific name of instance 1 as well
CacheRelayVendor ==
    [CacheRelay EXCEPT ![<<"d1", "analogInput", 1>>] = @ \cup {"3000"}]

\* time passes
RelayTick ==
    /\ clock < MaxRelayTime
    /\ clock' = clock + 1
    /\ UNCHANGED <<source_vars, reader_vars, history_vars, relay_vars, gateway_vars,
                   interval,
                   nan_at_timeout, deadline, deadline0, now, last_time_send_by_metric,
                   sent, in_flight, stamped, polls_at_deadline, last_check>>

\* the worker of CfgRelay has declared its metrics and enters its loop
InitRelay ==
    /\ bacnet_reader = "running"
    /\ object_groups = ParseObjectGroups(CfgRelay)
    /\ device_config = ParseDeviceConfig(CfgRelay)
    /\ worker_stop_futures = <<FALSE>>
    /\ object_info_cache \in {CacheRelay, CacheRelayVendor}
    /\ worker_tasks =
         <<[NewWorker(ParseObjectGroups(CfgRelay)[1], 1) EXCEPT
              !.pc = "poll", !.rdp = "cached", !.declares = 1,
              !.device_info = [found |-> TRUE, props |-> DeviceProps],
              !.metrics =
                 {WorkerMetricId(object_info_cache, ParseObjectGroups(CfgRelay)[1], i) :
                    i \in MetricInstances(object_info_cache, ParseObjectGroups(CfgRelay)[1])}]>>
    /\ counts = [expected |-> 1, starting |-> 1, running |-> 1, failed |-> 0]
    /\ result_queue = <<>>
    /\ unfinished_tasks = 0
    /\ main_task_stop_future = FALSE
    /\ task_pc = "running"
    /\ config_pc = "idle"
    /\ config_arg = <<>>
    /\ config_result = "accepted"
    /\ stop_pc = "idle"
    /\ stop_waits = 0
    /\ deviceInfoCache = {"d1"}
    /\ io_queue = [d \in Devices |-> <<>>]
    /\ thread_pc = "idle"
    /\ put_item = NoItem
    /\ reloads = 1
    /\ stop_log = <<>>
    /\ TimedIdle
    /\ RelayIdle
    /\ GatewayIdle

NextRelay ==
    \/ RelayTick
    \/ WorkerRequestValues(1)
    \/ WorkerTimeout(1)
    \/ \E d \in Devices, ok \in BOOLEAN, pv \in [Instances -> PresentValues] :
         iocb_callback(d, ok, pv)
    \/ \E ok \in BOOLEAN : put_result_in_source_queue(ok)
    \/ task_get_send

SpecRelay == InitRelay /\ [][NextRelay]_vars

(***************************************************************************)
(* Properties of the relay (SpecRelay)                                     *)
(***************************************************************************)
\* task() dequeues a result in this step
DispatchStep == result_queue # <<>> /\ result_queue' = Tail(result_queue)

\* the items of result_values whose presentValue is a number
NumericItems(item) ==
    {n \in DOMAIN item.values : item.values[n].presentValue[1] = "number"}

\* the metric id task() makes of an object name and a device name
DispatchMetricId(object_name, device_name) ==
    MetricIdOf(MetricIdTemplate, DisplayName(object_name), DisplayName(device_name))

\* C13: The iteration of task() that dequeues a result makes exactly one
\* send for every object of the result whose presentValue is a number, with
\* the object's metric id, the timestamp of the result and that value, and
\* books the timestamp as the last send of that metric; for the objects
\* whose presentValue is no number or is missing it sends nothing and
\* leaves the book of the last sends as it was; no other step sends.
C13_PublishNumeric ==
    [][/\ DispatchStep =>
            LET item == Head(result_queue)
                ids == {DispatchMetricId(item.values[n].object_name, item.device_name) :
                          n \in NumericItems(item)}
            IN /\ Len(published') = Cardinality(NumericItems(item))
               /\ \A n \in NumericItems(item) :
                    \E m \in DOMAIN published' :
                      published'[m] =
                        <<DispatchMetricId(item.values[n].object_name, item.device_name),
                          item.timestamp, item.values[n].presentValue[2]>>
               /\ DOMAIN last_time_send_by_metric' = DOMAIN last_time_send_by_metric \cup ids
               /\ \A id \in DOMAIN last_time_send_by_metric' :
                    last_time_send_by_metric'[id] =
                      IF id \in ids THEN item.timestamp ELSE last_time_send_by_metric[id]
       /\ ~DispatchStep =>
            /\ published' = published
            /\ last_time_send_by_metric' = last_time_send_by_metric]_vars

\* a result that arrived at time 1 was dispatched with one send, the other
\* object's presentValue being no number; an earlier result had sent both
C13_Witness ==
    /\ Len(published) = 1
    /\ published[1][2] = 1
    /\ Cardinality(DOMAIN last_time_send_by_metric) = 2
    /\ \E id \in DOMAIN last_time_send_by_metric : last_time_send_by_metric[id] = 0

\* C14: Every metric id under which task() sends the value of an object is
\* a metric id the worker of the object's group declared (every object of
\* the group has the properties a metric needs), also when the cached info
\* of the object holds the property "3000".
C14_SameMetricId ==
    [][DispatchStep =>
         \A m \in DOMAIN published' : published'[m][1] \in worker_tasks[1].metrics]_vars

\* the runner thread hands a result to the event loop in this step
SubmitStep ==
    \E d \in Devices :
      /\ thread_pc = "idle"
      /\ io_queue[d] # <<>>
      /\ io_queue'[d] = Tail(io_queue[d])
      /\ put_item' # NoItem

\* C16: The callback that handed a result to the event loop does not
\* return before the put has run or has failed: until then the runner
\* thread completes no other request, and it goes on exactly when the result
\* is the last item of the queue or the put is booked as failed; the queue
\* only grows at its tail and shrinks at its head.
C16_SynchronousPut ==
    [][/\ SubmitStep => thread_pc' = "putting"
       /\ thread_pc = "putting" =>
            /\ \A d \in Devices : Len(io_queue'[d]) >= Len(io_queue[d])
            /\ thread_pc' # "putting" =>
                 \/ result_queue' = Append(result_queue, put_item)
                 \/ /\ result_queue' = result_queue
                    /\ ItemKey(put_item) \in put_failed'
       /\ result_queue' # result_queue =>
            \/ DispatchStep
            \/ thread_pc = "putting" /\ result_queue' = Append(result_queue, put_item)]_vars

\* two results wait in the queue in the order of their polls while the
\* thread is free again
C16_Witness ==
    /\ Len(result_queue) = 2
    /\ Earlier(result_queue[1].poll, result_queue[2].poll)
    /\ thread_pc = "idle"
    /\ io_queue["d1"] = <<>>

\* the put of the thread's result raises in this step
PutFails == thread_pc = "putting" /\ put_failed' # put_failed

\* C17: The step in which the put of a result fails leaves the queue, the
\* sends and the workers as they were and frees the runner thread; a result
\* whose put failed is never in the queue afterwards, and the requests that
\* wait for the device are still answered.
C17_PutFailureDrops ==
    /\ [][PutFails =>
            /\ result_queue' = result_queue
            /\ unfinished_tasks' = unfinished_tasks
            /\ published' = published
            /\ last_time_send_by_metric' = last_time_send_by_metric
            /\ thread_pc' = "idle"
            /\ put_item' = NoItem
            /\ io_queue' = io_queue
            /\ worker_tasks' = worker_tasks
            /\ task_pc' = task_pc]_vars
    /\ [](/\ \A n \in DOMAIN result_queue : ItemKey(result_queue[n]) \notin put_failed
          /\ thread_pc = "putting" => ItemKey(put_item) \notin put_failed)

\* the put of the first poll's result failed; the result of the second poll
\* was queued and dispatched with its two sends
C17_Witness ==
    /\ put_failed = {<<(<<1, 1>>), 1>>}
    /\ worker_tasks[1].polls = 2
    /\ result_queue = <<>>
    /\ Len(published) = 2
    /\ unfinished_tasks = 0
    /\ thread_pc = "idle"


(***************************************************************************)
(* SpecChunks: the chunks request_object_properties and request_values     *)
(* send for a list of objects (application.py lines 63-66, 448-453 and     *)
(* 516-527).                                                               *)
(***************************************************************************)
\* the longest list of objects of a request
MaxObjects == 125
\* an explicit chunk_size argument
ExplicitChunkSize == 7

\* line 451
NoSegmentationChunkSize == 4

DefaultChunkSize_Segmented(device_info, segmentationSupported) == PropertiesChunkSize

\* lines 448-451 and 520-523: the chunk size of a call without chunk_size,
\* before the scale of request_values; device_info is whether the device
\* info cache knows the device
DefaultChunkSize(device_info, segmentationSupported) ==
    IF device_info /\ segmentationSupported = "noSegmentation"
    THEN NoSegmentationChunkSize
    ELSE PropertiesChunkSize

\* lines 447-451 and 516-523
ChunkSizeOf(call) ==
    LET default == DefaultChunkSize(call.device_info, call.segmentationSupported)
    IN ChunkSizeOr(call.chunk_size,
                   IF call.fn = "request_values" THEN default * chunk_scale ELSE default)

ChunkCalls ==
    [fn : {"request_object_properties", "request_values"},
     objects : {IntRange(1, n) : n \in 0..MaxObjects},
     chunk_size : {0, ExplicitChunkSize},
     device_info : BOOLEAN,
     segmentationSupported : {"segmentedBoth", "noSegmentation"},
     sent : {FALSE}]

\* lines 453-472 and 527-548: one request per chunk, in order
SendChunks ==
    /\ chunk_call.fn # "none"
    /\ ~chunk_call.sent
    /\ chunk_out' = chunks(chunk_call.objects, ChunkSizeOf(chunk_call))
    /\ chunk_call' = [chunk_call EXCEPT !.sent = TRUE]
    /\ UNCHANGED <<source_vars, reader_vars, history_vars, timed_vars, relay_vars,
                   calls, cache_lock, disk_cache_file>>

InitChunks ==
    /\ bacnet_reader = "running"
    /\ object_groups = <<>>
    /\ device_config = {}
    /\ worker_stop_futures = <<>>
    /\ worker_tasks = <<>>
    /\ counts = [expected |-> 0, starting |-> 0, running |-> 0, failed |-> 0]
    /\ result_queue = <<>>
    /\ unfinished_tasks = 0
    /\ main_task_stop_future = FALSE
    /\ task_pc = "running"
    /\ config_pc = "idle"
    /\ config_arg = <<>>
    /\ config_result = "none"
    /\ stop_pc = "idle"
    /\ stop_waits = 0
    /\ object_info_cache = EmptyCache
    /\ deviceInfoCache = {}
    /\ io_queue = [d \in Devices |-> <<>>]
    /\ thread_pc = "idle"
    /\ put_item = NoItem
    /\ reloads = 0
    /\ stop_log = <<>>
    /\ TimedIdle
    /\ RelayIdle
    /\ calls = NoCalls /\ cache_lock = "free"
    /\ disk_cache_file = DiskCacheFile(EmptyCache)
    /\ chunk_call \in ChunkCalls
    /\ chunk_out = <<>>

NextChunks == SendChunks

SpecChunks == InitChunks /\ [][NextChunks]_vars

RECURSIVE Flatten(_)
Flatten(seqs) == IF seqs = <<>> THEN <<>> ELSE Head(seqs) \o Flatten(Tail(seqs))

\* the chunk size the claim states for a call without chunk_size
StatedChunkSize(call) ==
    LET no_segmentation == call.device_info /\ call.segmentationSupported = "noSegmentation"
    IN IF call.fn = "request_object_properties"
       THEN (IF no_segmentation THEN 4 ELSE 20)
       ELSE (IF no_segmentation THEN 12 ELSE 60)

\* C27: Without a chunk_size argument the chunks of request_object_properties
\* hold 20 objects (4 for a device that advertised no segmentation) and the
\* chunks of request_values 60 (12); put one after the other the chunks are
\* the list of objects, no chunk is empty and only the last may be smaller.
C27_ChunkSizes ==
    (chunk_call.fn # "none" /\ chunk_call.sent /\ chunk_call.chunk_size = 0) =>
      /\ Flatten(chunk_out) = chunk_call.objects
      /\ \A c \in DOMAIN chunk_out :
           /\ Len(chunk_out[c]) \in 1..StatedChunkSize(chunk_call)
           /\ c < Len(chunk_out) => Len(chunk_out[c]) = StatedChunkSize(chunk_call)

\* value chunks of a device without segmentation, the last one smaller
C27_Witness ==
    /\ chunk_call.fn = "request_values" /\ chunk_call.sent
    /\ chunk_call.chunk_size = 0
    /\ chunk_call.device_info /\ chunk_call.segmentationSupported = "noSegmentation"
    /\ Len(chunk_out) = 3
    /\ Len(chunk_out[3]) = 1


(***************************************************************************)
(* SpecMerge: the merge of a response into one key of the object-info      *)
(* cache with the values of the properties (application.py lines 378-388   *)
(* and 483-489).  A bundle is a function from property names to values.    *)
(***************************************************************************)
\* merges of one run
MaxMerges == 2

PropertyValues == {"x", "y"}

\* the dicts _unpack_iocb can return for one object
Bundles == UNION {[names -> PropertyValues] : names \in SUBSET DeviceProps}

\* dict.update(other)
update(bundle, other) ==
    [p \in DOMAIN bundle \cup DOMAIN other |->
       IF p \in DOMAIN other THEN other[p] ELSE bundle[p]]

MergeValues_Replace(cache, key, bundle) == cache @@ (key :> bundle)

\* lines 378-388 and 483-489: create the key if missing, then dict.update
MergeValues(cache, key, bundle) ==
    IF key \in DOMAIN cache
    THEN [cache EXCEPT ![key] = update(@, bundle)]
    ELSE cache @@ (key :> bundle)

\* a response for the device object of d1 is merged
MergeResponse(bundle) ==
    /\ Len(calls) < MaxMerges
    /\ object_info_cache' = MergeValues(object_info_cache, DeviceKey("d1"), bundle)
    /\ calls' = Append(calls, [bundle |-> bundle, cache |-> object_info_cache'])
    /\ UNCHANGED <<source_vars, deviceInfoCache, io_queue, thread_pc, put_item,
                   history_vars, timed_vars, relay_vars, cache_lock, disk_cache_file,
                   chunk_call, chunk_out>>

InitMerge ==
    /\ bacnet_reader = "running"
    /\ object_groups = <<>>
    /\ device_config = {}
    /\ worker_stop_futures = <<>>
    /\ worker_tasks = <<>>
    /\ counts = [expected |-> 0, starting |-> 0, running |-> 0, failed |-> 0]
    /\ result_queue = <<>>
    /\ unfinished_tasks = 0
    /\ main_task_stop_future = FALSE
    /\ task_pc = "running"
    /\ config_pc = "idle"
    /\ config_arg = <<>>
    /\ config_result = "none"
    /\ stop_pc = "idle"
    /\ stop_waits = 0
    /\ object_info_cache \in {EmptyCache} \cup {DeviceKey("d1") :> b : b \in Bundles}
    /\ disk_cache_file = DiskCacheFile(object_info_cache)
    /\ deviceInfoCache = {"d1"}
    /\ io_queue = [d \in Devices |-> <<>>]
    /\ thread_pc = "idle"
    /\ put_item = NoItem
    /\ reloads = 0
    /\ stop_log = <<>>
    /\ TimedIdle
    /\ RelayIdle
    /\ calls = <<>> /\ cache_lock = "free"
    /\ chunk_call = NoChunkCall /\ chunk_out = <<>>

NextMerge == \E bundle \in Bundles : MergeResponse(bundle)

SpecMerge == InitMerge /\ [][NextMerge]_vars

Disjoint(a, b) == DOMAIN a \cap DOMAIN b = {}

\* C22: Merging the same bundle into a key twice leaves the cache as after
\* the first merge; after the merges of two bundles with no property name
\* in common the key holds what it held before, overridden by both bundles,
\* and the cache is the one the merges give in the other order.
C22_MergeIdempotent ==
    Len(calls) = 2 =>
      LET a == calls[1].bundle
          b == calls[2].bundle
          key == DeviceKey("d1")
          loaded == disk_cache_file.cache
          before == IF key \in DOMAIN loaded THEN loaded[key] ELSE <<>>
      IN /\ a = b => calls[2].cache = calls[1].cache
         /\ Disjoint(a, b) =>
              /\ DOMAIN object_info_cache[key] = DOMAIN before \cup DOMAIN a \cup DOMAIN b
              /\ \A p \in DOMAIN object_info_cache[key] :
                   object_info_cache[key][p] =
                     IF p \in DOMAIN a THEN a[p]
                     ELSE IF p \in DOMAIN b THEN b[p] ELSE before[p]
              /\ object_info_cache
                   = MergeValues(MergeValues(loaded, key, b), key, a)

\* two bundles of one property each were merged over a cached bundle that
\* held other values for both
C22_Witness ==
    /\ Len(calls) = 2
    /\ DOMAIN calls[1].bundle = {"objectName"}
    /\ DOMAIN calls[2].bundle = {"description"}
    /\ DeviceKey("d1") \in DOMAIN disk_cache_file.cache
    /\ DOMAIN disk_cache_file.cache[DeviceKey("d1")] = DeviceProps
    /\ \A p \in DeviceProps :
         disk_cache_file.cache[DeviceKey("d1")][p] # object_info_cache[DeviceKey("d1")][p]


(***************************************************************************)
(* SpecGateway: the blocking requests request_device_properties and        *)
(* request_object_properties (application.py lines 305-504) as their two   *)
(* callers issue them: the discovery of a worker task (source.py lines     *)
(* 356-375) and the RPC get_object_list_with_info (lines 563-608), both    *)
(* for device d1 and its objects analogInput 1, 2 and 3.  The coroutine    *)
(* of a call site runs on the event loop; the function it hands to         *)
(* run_in_executor runs on the thread run_in_executor gives it.            *)
(***************************************************************************)
\* objectList of d1, after the object type filter of source.py line 574
ObjectList == <<1, 2, 3>>

\* the arguments of the two calls of a call site
CallArgs(site) ==
    IF site = "worker"
    THEN [device_properties |-> DeviceProps, object_properties |-> ObjectProps,
          skip_when_cached |-> TRUE, chunk_size |-> 2]
    ELSE [device_properties |-> {"objectList"},
          object_properties |-> {"objectName", "description"},
          skip_when_cached |-> FALSE, chunk_size |-> 0]

\* fn is the request in progress, requests the reads it sent (the objects
\* of each, 0 for the device object), who_is and sleeps the Who-Is broadcasts and the seconds slept
\* after each, returned what the request returned (props), todo the chunks
\* of request_object_properties, acked the chunks that were answered and
\* fetched its result_values
NewCall(site) ==
    [site |-> site, pc |-> "start", thread |-> "loop", fn |-> "none",
     args |-> CallArgs(site), objects |-> <<>>, retry |-> 0, who_is |-> 0,
     sleeps |-> <<>>, requests |-> <<>>, todo |-> <<>>, chunk |-> 0,
     acked |-> {}, to_merge |-> <<>>, after_merge |-> "none", fetched |-> EmptyCache,
     returned |-> [none |-> TRUE, props |-> {}]]

ReturnNone == [none |-> TRUE, props |-> {}]

ReturnDict(props) == [none |-> FALSE, props |-> props]

run_in_executor_Inline == "loop"

\* source.py lines 356, 365, 565 and 600: the thread that runs the function
\* handed to event_loop.run_in_executor(None, ...)
run_in_executor == "pool"

\* the positions inside request_device_properties and
\* request_object_properties
InRequest ==
    {"rdp_lookup", "rdp_whois", "rdp_sleep", "rdp_skip", "rdp_wait", "rop_filter",
     "rop_wait", "rop_next", "merge", "merge_locked"}

\* the event loop runs a coroutine only while no request runs on its thread
LoopFree ==
    \A site \in DOMAIN calls :
      calls[site].pc \in InRequest => calls[site].thread # "loop"

gateway_frame ==
    UNCHANGED <<source_vars, io_queue, thread_pc, put_item, history_vars, timed_vars,
                relay_vars, chunk_call, chunk_out>>

\* source.py lines 356-364 and 565-572: the coroutine hands
\* request_device_properties to the executor and awaits it
Submit(site) ==
    /\ calls[site].pc = "start"
    /\ LoopFree
    /\ calls' = [calls EXCEPT ![site].pc = "rdp_lookup",
                              ![site].fn = "request_device_properties",
                              ![site].thread = run_in_executor]
    /\ UNCHANGED <<object_info_cache, deviceInfoCache, cache_lock, disk_cache_file>>
    /\ gateway_frame

\* application.py lines 321-324 (and 330-344 with a retry count of 0)
DeviceLookup(site) ==
    /\ calls[site].pc = "rdp_lookup"
    /\ calls' = [calls EXCEPT ![site].pc = IF "d1" \in deviceInfoCache THEN "rdp_skip"
                                           ELSE IF RetryCount > 0 THEN "rdp_whois"
                                           ELSE "resume"]
    /\ UNCHANGED <<object_info_cache, deviceInfoCache, cache_lock, disk_cache_file>>
    /\ gateway_frame

WhoIsSleep_Constant(retry) == 5

\* line 327: time.sleep(5 * (retry + 1)), retry counting from 0
WhoIsSleep(retry) == 5 * (retry + 1)

\* lines 325-327: deferred(self.who_is) and the sleep that follows
WhoIs(site) ==
    /\ calls[site].pc = "rdp_whois"
    /\ calls' = [calls EXCEPT ![site].pc = "rdp_sleep",
                              ![site].who_is = @ + 1,
                              ![site].sleeps = Append(@, WhoIsSleep(calls[site].retry)),
                              ![site].retry = @ + 1]
    /\ UNCHANGED <<object_info_cache, deviceInfoCache, cache_lock, disk_cache_file>>
    /\ gateway_frame

\* lines 329-344: the lookup after the sleep
Wake(site) ==
    /\ calls[site].pc = "rdp_sleep"
    /\ LET next == AfterWhoIs("d1" \in deviceInfoCache, calls[site].retry)
       IN calls' = [calls EXCEPT ![site].pc = CASE next = "rdp_read" -> "rdp_skip"
                                                [] next = "rdp_whois" -> "rdp_whois"
                                                [] OTHER -> "resume"]
    /\ UNCHANGED <<object_info_cache, deviceInfoCache, cache_lock, disk_cache_file>>
    /\ gateway_frame

\* lines 293-303: the I-Am of d1 arrives after a Who-Is
IAmAfterWhoIs ==
    /\ \E site \in DOMAIN calls : calls[site].who_is > 0
    /\ "d1" \notin deviceInfoCache
    /\ deviceInfoCache' = deviceInfoCache \cup {"d1"}
    /\ UNCHANGED <<object_info_cache, calls, cache_lock, disk_cache_file>>
    /\ gateway_frame

\* lines 346-370: the skip_when_cached test, read without the lock, and the
\* read request for the device object
DeviceRequest(site) ==
    /\ calls[site].pc = "rdp_skip"
    /\ IF /\ calls[site].args.skip_when_cached
          /\ IsCached(object_info_cache, DeviceKey("d1"), calls[site].args.device_properties)
       THEN calls' = [calls EXCEPT ![site].pc = "resume", ![site].returned = ReturnNone]
       ELSE calls' = [calls EXCEPT ![site].pc = "rdp_wait",
                                   ![site].requests = Append(@, <<0>>)]
    /\ UNCHANGED <<object_info_cache, deviceInfoCache, cache_lock, disk_cache_file>>
    /\ gateway_frame

\* lines 372-402: iocb.wait() returns with the response (ok) or with an
\* error, a reject, an abort or the timeout
DeviceResponse(site, ok) ==
    /\ calls[site].pc = "rdp_wait"
    /\ LET bundle == ServedProps("d1", "device", 0) \cap calls[site].args.device_properties
       IN calls' =
            IF ok
            THEN [calls EXCEPT ![site].pc = "merge",
                               ![site].to_merge = <<(<<DeviceKey("d1"), bundle>>)>>,
                               ![site].after_merge = "resume",
                               ![site].returned = ReturnDict(bundle)]
            ELSE [calls EXCEPT ![site].pc = "resume", ![site].returned = ReturnNone]
    /\ UNCHANGED <<object_info_cache, deviceInfoCache, cache_lock, disk_cache_file>>
    /\ gateway_frame

\* lines 376-385 and 483-486: with self._object_info_cache_lock, the key
\* is created when it is missing
MergeBegin(site) ==
    /\ calls[site].pc = "merge"
    /\ cache_lock = "free"
    /\ cache_lock' = site
    /\ LET key == calls[site].to_merge[1][1]
       IN object_info_cache' = IF key \in DOMAIN object_info_cache
                               THEN object_info_cache
                               ELSE object_info_cache @@ (key :> {})
    /\ calls' = [calls EXCEPT ![site].pc = "merge_locked"]
    /\ UNCHANGED <<deviceInfoCache, disk_cache_file>>
    /\ gateway_frame

\* lines 386-388 and 487-489: dict.update, then the lock is released
MergeEnd(site) ==
    /\ calls[site].pc = "merge_locked"
    /\ cache_lock' = "free"
    /\ object_info_cache' = MergeIntoCache(object_info_cache, calls[site].to_merge[1][1],
                                           calls[site].to_merge[1][2])
    /\ calls' = [calls EXCEPT ![site].to_merge = Tail(@),
                              ![site].pc = IF Len(calls[site].to_merge) > 1
                                           THEN "merge" ELSE calls[site].after_merge]
    /\ UNCHANGED <<deviceInfoCache, disk_cache_file>>
    /\ gateway_frame

\* the objects of a list whose cached bundle lacks one of the properties
\* (application.py lines 428-438, source.py lines 585-591)
ObjectsMissing(cache, objects, properties) ==
    SelectSeq2(objects,
               {i \in SeqToSet(objects) :
                  ~IsCached(cache, <<"d1", "analogInput", i>>, properties)})

\* source.py lines 365-375 and 573-608: the coroutine goes on after
\* request_device_properties returned and hands request_object_properties
\* to the executor; the RPC handler asks for the objects of the objectList
\* it got whose objectName or description is not cached
Resume(site) ==
    /\ calls[site].pc = "resume"
    /\ LoopFree
    /\ calls' =
         IF site = "worker"
         THEN [calls EXCEPT ![site].pc = "rop_filter",
                            ![site].fn = "request_object_properties",
                            ![site].thread = run_in_executor,
                            ![site].objects = ObjectList]
         ELSE IF ~calls[site].returned.none /\ "objectList" \in calls[site].returned.props
         THEN [calls EXCEPT ![site].pc = "rop_filter",
                            ![site].fn = "request_object_properties",
                            ![site].thread = run_in_executor,
                            ![site].objects =
                               ObjectsMissing(object_info_cache, ObjectList,
                                              {"objectName", "description"})]
         ELSE [calls EXCEPT ![site].pc = "done", ![site].fn = "none"]
    /\ UNCHANGED <<object_info_cache, deviceInfoCache, cache_lock, disk_cache_file>>
    /\ gateway_frame

\* application.py lines 425-472: the skip_when_cached filter, read without
\* the lock, the chunks, and the read request of the first chunk
ObjectRequest(site) ==
    LET c == calls[site]
        objects == IF c.args.skip_when_cached
                   THEN ObjectsMissing(object_info_cache, c.objects, c.args.object_properties)
                   ELSE c.objects
        cs == chunks(objects,
                     ChunkSizeOr(c.args.chunk_size,
                                 DefaultChunkSize("d1" \in deviceInfoCache, "segmentedBoth")))
    IN
    /\ c.pc = "rop_filter"
    /\ calls' =
         IF c.args.skip_when_cached /\ objects = <<>>
         THEN [calls EXCEPT ![site].pc = "done", ![site].returned = ReturnNone]
         ELSE IF cs = <<>>
         THEN [calls EXCEPT ![site].pc = "done", ![site].returned = ReturnDict({})]
         ELSE [calls EXCEPT ![site].pc = "rop_wait", ![site].todo = cs,
                            ![site].chunk = 1,
                            ![site].requests = Append(@, cs[1])]
    /\ UNCHANGED <<object_info_cache, deviceInfoCache, cache_lock, disk_cache_file>>
    /\ gateway_frame

AfterChunk_Abort(ok) == IF ok THEN "rop_next" ELSE "rop_end"

\* lines 474-500: the loop over the chunks goes on after a chunk, answered
\* or not
AfterChunk(ok) == "rop_next"

\* lines 472-500: iocb.wait() of a chunk returns with the response (ok) or
\* with an error, a reject, an abort or the timeout
ChunkResponse(site, ok) ==
    LET c == calls[site]
        objects == c.todo[c.chunk]
        bundle(i) == ServedProps("d1", "analogInput", i) \cap c.args.object_properties
    IN
    /\ c.pc = "rop_wait"
    /\ calls' =
         IF ok
         THEN [calls EXCEPT
                 ![site].pc = "merge",
                 ![site].acked = @ \cup {c.chunk},
                 ![site].to_merge =
                    [n \in DOMAIN objects |->
                       <<(<<"d1", "analogInput", objects[n]>>), bundle(objects[n])>>],
                 ![site].after_merge = AfterChunk(ok),
                 ![site].fetched =
                    [k \in DOMAIN @ \cup {<<"d1", "analogInput", i>> : i \in SeqToSet(objects)} |->
                       IF k[3] \in SeqToSet(objects) THEN bundle(k[3]) ELSE @[k]]]
         ELSE [calls EXCEPT ![site].pc = AfterChunk(ok)]
    /\ UNCHANGED <<object_info_cache, deviceInfoCache, cache_lock, disk_cache_file>>
    /\ gateway_frame

\* lines 453-472 and 502: the read request of the next chunk, or the
\* return of result_values
ChunkNext(site) ==
    LET c == calls[site] IN
    /\ c.pc \in {"rop_next", "rop_end"}
    /\ calls' =
         IF c.pc = "rop_next" /\ c.chunk < Len(c.todo)
         THEN [calls EXCEPT ![site].pc = "rop_wait", ![site].chunk = @ + 1,
                            ![site].requests = Append(@, c.todo[c.chunk + 1])]
         ELSE [calls EXCEPT ![site].pc = "done",
                            ![site].returned = ReturnDict({k[3] : k \in DOMAIN c.fetched})]
    /\ UNCHANGED <<object_info_cache, deviceInfoCache, cache_lock, disk_cache_file>>
    /\ gateway_frame

\* lines 134-145: stop() dumps the cache to the disk cache file, on the
\* thread of the event loop and without the lock
SaveCache ==
    /\ ~disk_cache_file.written
    /\ LoopFree
    /\ disk_cache_file' = [written |-> TRUE, cache |-> object_info_cache]
    /\ UNCHANGED <<object_info_cache, deviceInfoCache, calls, cache_lock>>
    /\ gateway_frame

\* a disk cache file that holds every property of the device and of the
\* three objects
FullCache ==
    (DeviceKey("d1") :> DeviceProps)
    @@ [k \in {<<"d1", "analogInput", i>> : i \in SeqToSet(ObjectList)} |-> ObjectProps]

InitGateway ==
    /\ bacnet_reader = "running"
    /\ object_groups = <<>>
    /\ device_config = {}
    /\ worker_stop_futures = <<>>
    /\ worker_tasks = <<>>
    /\ counts = [expected |-> 0, starting |-> 0, running |-> 0, failed |-> 0]
    /\ result_queue = <<>>
    /\ unfinished_tasks = 0
    /\ main_task_stop_future = FALSE
    /\ task_pc = "running"
    /\ config_pc = "idle"
    /\ config_arg = <<>>
    /\ config_result = "none"
    /\ stop_pc = "idle"
    /\ stop_waits = 0
    /\ object_info_cache \in {EmptyCache, DiskCache, FullCache}
    /\ deviceInfoCache \in {{}, {"d1"}}
    /\ io_queue = [d \in Devices |-> <<>>]
    /\ thread_pc = "idle"
    /\ put_item = NoItem
    /\ reloads = 0
    /\ stop_log = <<>>
    /\ TimedIdle
    /\ RelayIdle
    /\ calls = [site \in {"worker", "handler"} |-> NewCall(site)]
    /\ cache_lock = "free"
    /\ disk_cache_file = DiskCacheFile(object_info_cache)
    /\ chunk_call = NoChunkCall /\ chunk_out = <<>>

NextGateway ==
    \/ \E site \in DOMAIN calls : Submit(site)
    \/ \E site \in DOMAIN calls : DeviceLookup(site)
    \/ \E site \in DOMAIN calls : WhoIs(site)
    \/ \E site \in DOMAIN calls : Wake(site)
    \/ IAmAfterWhoIs
    \/ \E site \in DOMAIN calls : DeviceRequest(site)
    \/ \E site \in DOMAIN calls, ok \in BOOLEAN : DeviceResponse(site, ok)
    \/ \E site \in DOMAIN calls : MergeBegin(site)
    \/ \E site \in DOMAIN calls : MergeEnd(site)
    \/ \E site \in DOMAIN calls : Resume(site)
    \/ \E site \in DOMAIN calls : ObjectRequest(site)
    \/ \E site \in DOMAIN calls, ok \in BOOLEAN : ChunkResponse(site, ok)
    \/ \E site \in DOMAIN calls : ChunkNext(site)
    \/ SaveCache

SpecGateway == InitGateway /\ [][NextGateway]_vars

\* C21: No step removes a key from the object-info cache or a property
\* from the bundle of a key.
C21_CacheMonotone ==
    [][\A key \in DOMAIN object_info_cache :
         /\ key \in DOMAIN object_info_cache'
         /\ object_info_cache[key] \subseteq object_info_cache'[key]]_vars

\* both call sites merged into the key of the device, which the run found
\* empty: the properties of the worker and the objectList of the RPC
C21_Witness ==
    /\ disk_cache_file.cache = EmptyCache
    /\ DeviceKey("d1") \in DOMAIN object_info_cache
    /\ object_info_cache[DeviceKey("d1")] = DeviceProps \cup {"objectList"}
    /\ \A site \in DOMAIN calls : calls[site].pc = "done"

\* request_device_properties of a call site returns after its merge
DeviceReturn(site) ==
    /\ calls[site].fn = "request_device_properties"
    /\ calls[site].pc = "merge_locked"
    /\ calls'[site].pc = "resume"

\* C23: When request_device_properties returns after a read that was
\* answered, what it returns is the bundle the cache holds under the key of
\* the device after the merge.
C23_ReturnsCachedBundle ==
    [][\A site \in DOMAIN calls :
         DeviceReturn(site) =>
           /\ ~calls'[site].returned.none
           /\ calls'[site].returned.props = object_info_cache'[DeviceKey("d1")]]_vars

\* request_object_properties of a call site returns
ObjectReturn(site) ==
    /\ calls[site].fn = "request_object_properties"
    /\ calls[site].pc # "done"
    /\ calls'[site].pc = "done"

\* C24: What request_object_properties returns holds every object it was
\* asked for that has a bundle in the cache, fetched by this call or cached
\* before, the objects skipped because of skip_when_cached included.
C24_ReturnsCachedObjects ==
    [][\A site \in DOMAIN calls :
         ObjectReturn(site) =>
           /\ ~calls'[site].returned.none
           /\ \A i \in SeqToSet(calls[site].objects) :
                <<"d1", "analogInput", i>> \in DOMAIN object_info_cache'
                  => i \in calls'[site].returned.props]_vars

\* the cache holds every one of the properties under the key
Complete(key, properties) ==
    key \in DOMAIN object_info_cache /\ properties \subseteq object_info_cache[key]

\* the objects of the read requests a step of the call site sends
NewlyRequested(site) ==
    UNION {SeqToSet(calls'[site].requests[n]) :
             n \in (Len(calls[site].requests) + 1)..Len(calls'[site].requests)}

\* C25: With skip_when_cached, request_device_properties sends no read when
\* the cache holds every requested property under the key of the device,
\* and request_object_properties sends reads only for the objects that
\* lacked a requested property when it looked (none when none lacked one).
C25_SkipWhenCached ==
    [][\A site \in DOMAIN calls :
         LET c == calls[site]
             cached(i) == Complete(<<"d1", "analogInput", i>>, c.args.object_properties)
         IN (c.args.skip_when_cached /\ calls'[site] # c) =>
              /\ (c.pc = "rdp_skip" /\ Complete(DeviceKey("d1"), c.args.device_properties))
                   => /\ calls'[site].requests = c.requests
                      /\ calls'[site].pc = "resume"
              /\ c.pc = "rop_filter"
                   => /\ NewlyRequested(site) \subseteq {i \in SeqToSet(c.objects) : ~cached(i)}
                      /\ SeqToSet(Flatten(calls'[site].todo))
                           = {i \in SeqToSet(c.objects) : ~cached(i)}
              /\ c.pc \in {"rop_wait", "rop_next", "rop_end", "merge", "merge_locked"}
                   => /\ calls'[site].todo = c.todo
                      /\ NewlyRequested(site) \subseteq SeqToSet(Flatten(c.todo))]_vars

\* the worker's two requests returned without one read: everything cached
C25_Witness ==
    /\ calls["worker"].pc = "done"
    /\ calls["worker"].fn = "request_object_properties"
    /\ calls["worker"].requests = <<>>
    /\ calls["worker"].who_is = 0

\* the read requests of request_object_properties a call site has sent
ObjectRequests(site) ==
    SelectSeq(calls[site].requests, LAMBDA request : request # <<0>>)

\* C26: When request_object_properties has returned, it has sent the read
\* of every chunk, in order, whichever chunks failed, and the bundle of
\* every object of an answered chunk is in the cache and in what it returned.
C26_FailedChunkSkipped ==
    \A site \in DOMAIN calls :
      LET c == calls[site] IN
      (c.pc = "done" /\ c.fn = "request_object_properties" /\ c.todo # <<>>) =>
        /\ ObjectRequests(site) = c.todo
        /\ ~c.returned.none
        /\ \A n \in c.acked : \A i \in SeqToSet(c.todo[n]) :
             /\ i \in c.returned.props
             /\ <<"d1", "analogInput", i>> \in DOMAIN object_info_cache
             /\ ServedProps("d1", "analogInput", i) \cap c.args.object_properties
                  \subseteq object_info_cache[<<"d1", "analogInput", i>>]

\* the first of the worker's two chunks failed, the second was answered
C26_Witness ==
    /\ calls["worker"].pc = "done"
    /\ Len(calls["worker"].todo) = 2
    /\ calls["worker"].acked = {2}
    /\ calls["handler"].pc = "start"

\* C28: request_device_properties sends at most RetryCount Who-Is
\* broadcasts and sleeps 5 * n seconds after the n-th; the lookup after a
\* sleep ends the retries when the device is known, sends the next
\* broadcast when it is not and broadcasts are left, and otherwise the call
\* returns None without a read request.
C28_DiscoveryRetries ==
    [][\A site \in DOMAIN calls :
         LET c == calls[site]
             after == calls'[site]
         IN /\ after.who_is <= RetryCount
            /\ Len(after.sleeps) = after.who_is
            /\ \A n \in DOMAIN after.sleeps : after.sleeps[n] = 5 * n
            /\ after.who_is # c.who_is =>
                 /\ c.pc = "rdp_whois"
                 /\ after.who_is = c.who_is + 1
                 /\ after.pc = "rdp_sleep"
            /\ (c.pc = "rdp_sleep" /\ after # c) =>
                 IF "d1" \in deviceInfoCache
                 THEN after.pc = "rdp_skip" /\ after.who_is = c.who_is
                 ELSE IF c.who_is < RetryCount
                 THEN after.pc = "rdp_whois"
                 ELSE /\ after.pc = "resume"
                      /\ after.returned.none
                      /\ after.requests = <<>>]_vars

\* the worker's call gave up after the last broadcast, the RPC's call sent
\* one broadcast and found the device after the first sleep
C28_Witness ==
    /\ calls["worker"].pc = "resume"
    /\ calls["worker"].who_is = RetryCount
    /\ calls["worker"].requests = <<>>
    /\ calls["handler"].who_is = 1
    /\ calls["handler"].pc = "rdp_wait"

\* the positions where a request blocks its thread: the sleep after a
\* Who-Is and iocb.wait()
Blocked == {"rdp_sleep", "rdp_wait", "rop_wait"}

\* C29: A request runs on a thread of the executor, never on the thread of
\* the event loop, and while a request of one call site blocks, the
\* coroutine of the other call site that is ready to run can take its step.
C29_RequestsOffLoop ==
    \A site \in DOMAIN calls :
      /\ calls[site].pc \in InRequest => calls[site].thread # "loop"
      /\ calls[site].pc \in Blocked =>
           \A other \in DOMAIN calls \ {site} :
             /\ calls[other].pc = "start" => ENABLED Submit(other)
             /\ calls[other].pc = "resume" => ENABLED Resume(other)

\* the request of the RPC went from its lookup to its end while the
\* worker's request was in the sleep after its first Who-Is
C29_Witness ==
    /\ calls["worker"].pc = "rdp_sleep"
    /\ calls["worker"].who_is = 1
    /\ calls["handler"].who_is = 0
    /\ calls["handler"].pc = "done"
    /\ calls["handler"].fn = "request_object_properties"

\* a step that reads the cache for a skip_when_cached test or dumps it to
\* the disk cache file
CacheRead ==
    \/ disk_cache_file' # disk_cache_file
    \/ \E site \in DOMAIN calls :
         /\ calls[site].pc \in {"rdp_skip", "rop_filter"}
         /\ calls[site].args.skip_when_cached
         /\ calls'[site] # calls[site]

\* C30: A step that changes the object-info cache is made by the holder of
\* the lock, and no step reads the cache for a skip_when_cached test or
\* dumps it to the disk cache file while a merge holds the lock.
C30_CacheUnderLock ==
    [][/\ object_info_cache' # object_info_cache
            => (cache_lock # "free" \/ cache_lock' # "free")
       /\ CacheRead => cache_lock = "free"]_vars

(***************************************************************************)
(* The relay of the results of a RUNNING worker while the RPC handler's    *)
(* two requests merge their responses into the cache.                      *)
(***************************************************************************)
\* the worker of CfgRelay polls; get_object_list_with_info of d1 has been
\* called and has not yet handed its first request to the executor
InitLockRelay ==
    /\ bacnet_reader = "running"
    /\ object_groups = ParseObjectGroups(CfgRelay)
    /\ device_config = ParseDeviceConfig(CfgRelay)
    /\ worker_stop_futures = <<FALSE>>
    /\ object_info_cache = CacheRelay
    /\ worker_tasks =
         <<[NewWorker(ParseObjectGroups(CfgRelay)[1], 1) EXCEPT
              !.pc = "poll", !.rdp = "cached", !.declares = 1,
              !.device_info = [found |-> TRUE, props |-> DeviceProps],
              !.metrics =
                 {WorkerMetricId(object_info_cache, ParseObjectGroups(CfgRelay)[1], i) :
                    i \in MetricInstances(object_info_cache, ParseObjectGroups(CfgRelay)[1])}]>>
    /\ counts = [expected |-> 1, starting |-> 1, running |-> 1, failed |-> 0]
    /\ result_queue = <<>>
    /\ unfinished_tasks = 0
    /\ main_task_stop_future = FALSE
    /\ task_pc = "running"
    /\ config_pc = "idle"
    /\ config_arg = <<>>
    /\ config_result = "accepted"
    /\ stop_pc = "idle"
    /\ stop_waits = 0
    /\ deviceInfoCache = {"d1"}
    /\ io_queue = [d \in Devices |-> <<>>]
    /\ thread_pc = "idle"
    /\ put_item = NoItem
    /\ reloads = 1
    /\ stop_log = <<>>
    /\ TimedIdle
    /\ RelayIdle
    /\ calls = [site \in {"handler"} |-> NewCall(site)]
    /\ cache_lock = "free"
    /\ disk_cache_file = DiskCacheFile(object_info_cache)
    /\ chunk_call = NoChunkCall /\ chunk_out = <<>>

NextLockRelay ==
    \/ RelayTick
    \/ WorkerRequestValues(1)
    \/ WorkerTimeout(1)
    \/ \E d \in Devices, ok \in BOOLEAN, pv \in [Instances -> PresentValues] :
         iocb_callback(d, ok, pv)
    \/ \E ok \in BOOLEAN : put_result_in_source_queue(ok)
    \/ task_get_send
    \/ Submit("handler")
    \/ DeviceLookup("handler")
    \/ DeviceRequest("handler")
    \/ \E ok \in BOOLEAN : DeviceResponse("handler", ok)
    \/ MergeBegin("handler")
    \/ MergeEnd("handler")
    \/ Resume("handler")
    \/ ObjectRequest("handler")
    \/ \E ok \in BOOLEAN : ChunkResponse("handler", ok)
    \/ ChunkNext("handler")

SpecLockRelay == InitLockRelay /\ [][NextLockRelay]_vars

\* C31: The holder of the cache lock is a request on an executor thread in
\* the middle of its merge, which ends without waiting for anything (never
\* the runner thread that waits in its queue.put); the runner thread's
\* callback never waits for the lock, and a put the runner thread waits for
\* is served whoever holds the lock.
C31_LockNotAcrossQueue ==
    /\ cache_lock # "free" =>
         /\ cache_lock \in DOMAIN calls
         /\ calls[cache_lock].pc = "merge_locked"
         /\ calls[cache_lock].thread = "pool"
         /\ ENABLED MergeEnd(cache_lock)
    /\ thread_pc = "putting" => ENABLED put_result_in_source_queue(TRUE)
    /\ \A d \in Devices :
         (bacnet_reader = "running" /\ thread_pc = "idle" /\ io_queue[d] # <<>>)
           => ENABLED iocb_callback(d, TRUE, [i \in Instances |-> <<"number", 1>>])

\* the runner thread waits in its queue.put, and then finds the next
\* response, while the handler's request holds the lock
C31_Witness ==
    /\ cache_lock = "handler"
    /\ \/ thread_pc = "putting"
       \/ thread_pc = "idle" /\ io_queue["d1"] # <<>> /\ result_queue # <<>>

(***************************************************************************)
(* The disk cache file over the runs of the process: the load in           *)
(* BACnetMetricQReader.__init__ (application.py lines 89-104), the dump in *)
(* stop() (lines 134-145) and the two key functions (lines 53-59).         *)
(* Strings are sequences of characters here.  A key is <<address, type,    *)
(* instance>>; the object type of an object identifier is a name or, for   *)
(* a type bacpypes has no name for, a number (line 155:                    *)
(* Tuple[Union[str, int], int]): [is_int, text], text holding the name or  *)
(* the decimal digits.                                                      *)
(***************************************************************************)
\* the runs of the process
MaxRuns == 2

\* the merges of one run
MaxDiskMerges == 2

DigitChars == <<"0", "1", "2", "3", "4", "5", "6", "7", "8", "9">>

\* str(n) of a natural number
RECURSIVE str(_)
str(n) == IF n < 10 THEN <<DigitChars[n + 1]>>
          ELSE str(n \div 10) \o <<DigitChars[(n % 10) + 1]>>

\* int(s): the number, or ValueError for a string that is not all digits
RECURSIVE int(_)
int(s) ==
    IF s = <<>> \/ \E k \in DOMAIN s : s[k] \notin SeqToSet(DigitChars)
    THEN [ok |-> FALSE, value |-> 0]
    ELSE LET d == CHOOSE n \in 0..9 : DigitChars[n + 1] = s[Len(s)]
         IN IF Len(s) = 1 THEN [ok |-> TRUE, value |-> d]
            ELSE [ok |-> TRUE, value |-> 10 * int(SubSeq(s, 1, Len(s) - 1)).value + d]

\* str.find: the first position of sep in s, 0 if there is none
find(s, sep) ==
    LET hits == {k \in 1..(Len(s) - Len(sep) + 1) : SubSeq(s, k, k + Len(sep) - 1) = sep}
    IN IF hits = {} THEN 0 ELSE CHOOSE k \in hits : \A h \in hits : k <= h

\* str.split(sep, maxsplit)
RECURSIVE split(_, _, _)
split(s, sep, maxsplit) ==
    LET at == find(s, sep) IN
    IF maxsplit = 0 \/ at = 0 THEN <<s>>
    ELSE <<SubSeq(s, 1, at - 1)>>
         \o split(SubSeq(s, at + Len(sep), Len(s)), sep, maxsplit - 1)

KeySeparator == <<"-", "*", "-">>

TypeName(text) == [is_int |-> FALSE, text |-> text]

TypeNumber(n) == [is_int |-> TRUE, text |-> str(n)]

\* lines 53-54: "{}-*-{}-*-{}".format(*cache_key_tuple)
cachekey_tuple_to_str(cache_key_tuple) ==
    cache_key_tuple[1] \o KeySeparator \o cache_key_tuple[2].text
    \o KeySeparator \o str(cache_key_tuple[3])

\* lines 57-59: split("-*-", 3), the unpacking into three names and
\* int(object_instance); ok is FALSE where one of them raises ValueError
cachekey_str_to_tuple(cache_key_str) ==
    LET parts == split(cache_key_str, KeySeparator, 3) IN
    IF Len(parts) # 3 \/ ~int(parts[3]).ok
    THEN [ok |-> FALSE, key |-> <<>>]
    ELSE [ok |-> TRUE, key |-> <<parts[1], TypeName(parts[2]), int(parts[3]).value>>]

Address1 == <<"1", "0", ".", "0", ".", "0", ".", "1">>

TypeDevice == TypeName(<<"d", "e", "v", "i", "c", "e">>)

TypeAnalogInput == TypeName(<<"a", "n", "a", "l", "o", "g", "I", "n", "p", "u", "t">>)

\* a vendor's object type, which an object identifier holds as its number
TypeProprietary == TypeNumber(130)

\* json.load(json.dump(value)): a JSON array is read as a list
json_load_dump(value) == IF value = "list of tuple" THEN "list of list" ELSE value

\* the bundles the two requests merge
DeviceBundles ==
    {("objectName" :> "str"),
     ("objectList" :> "list of tuple"),
     ("objectName" :> "str") @@ ("objectList" :> "list of tuple")}

ObjectBundles == {("objectName" :> "str") @@ ("description" :> "str")}

\* the keys of the responses and the bundle unpacked for each; for a type
\* without a name get_datatype gives None and the bundle stays empty
Responses ==
    {<<(<<Address1, TypeDevice, 101>>), b>> : b \in DeviceBundles}
    \cup {<<(<<Address1, TypeAnalogInput, i>>), b>> : i \in {1, 12}, b \in ObjectBundles}
    \cup {<<(<<Address1, TypeProprietary, 1>>), [p \in {} |-> "str"]>>}

\* the file: kind is "missing", "unreadable" (open raises OSError),
\* "invalid_json" or "json"; items is the JSON object; saved is the cache
\* stop() dumped, for a file that stop() wrote
File(kind, items) ==
    [kind |-> kind, items |-> items, written |-> FALSE, saved |-> EmptyCache]

NoItems == [k \in {} |-> 0]

\* lines 136-142: the JSON object of the dump
Dump(cache) ==
    [text \in {cachekey_tuple_to_str(key) : key \in DOMAIN cache} |->
       LET key == CHOOSE k \in DOMAIN cache : cachekey_tuple_to_str(k) = text
       IN [p \in DOMAIN cache[key] |-> json_load_dump(cache[key][p])]]

\* lines 93-104: what the constructor makes of the file: the cache, or the
\* exception that leaves the constructor
Load(file) ==
    CASE file.kind \in {"missing", "unreadable", "invalid_json"} ->
           [raised |-> FALSE, warning |-> TRUE, cache |-> EmptyCache]
      [] \E text \in DOMAIN file.items : ~cachekey_str_to_tuple(text).ok ->
           [raised |-> TRUE, warning |-> FALSE, cache |-> EmptyCache]
      [] OTHER ->
           [raised |-> FALSE, warning |-> FALSE,
            cache |-> [key \in {cachekey_str_to_tuple(text).key : text \in DOMAIN file.items} |->
                         file.items[CHOOSE text \in DOMAIN file.items :
                                      cachekey_str_to_tuple(text).key = key]]]

disk_frame ==
    UNCHANGED <<object_groups, device_config, worker_stop_futures, worker_tasks, counts,
                result_queue, unfinished_tasks, main_task_stop_future, task_pc, config_pc,
                config_arg, stop_pc, stop_waits, deviceInfoCache, io_queue, thread_pc,
                put_item, timed_vars, relay_vars, calls, cache_lock, chunk_call, chunk_out>>

\* source.py lines 80-96 and application.py lines 89-104: the first config
\* RPC of a run constructs the reader, which loads the file
Construct ==
    /\ bacnet_reader = "none"
    /\ config_result = "none"
    /\ reloads < MaxRuns
    /\ reloads' = reloads + 1
    /\ IF Load(disk_cache_file).raised
       THEN /\ config_result' = "raised"
            /\ UNCHANGED <<bacnet_reader, object_info_cache, stop_log>>
       ELSE /\ bacnet_reader' = "running"
            /\ object_info_cache' = Load(disk_cache_file).cache
            /\ stop_log' = IF Load(disk_cache_file).warning
                           THEN Append(stop_log, "warning") ELSE stop_log
            /\ UNCHANGED config_result
    /\ UNCHANGED disk_cache_file
    /\ disk_frame

\* application.py lines 376-388 and 483-489: a response is merged
DiskMerge(key, bundle) ==
    /\ bacnet_reader = "running"
    /\ Len(SelectSeq(stop_log, LAMBDA e : e = "merge")) < MaxDiskMerges
    /\ object_info_cache' =
         IF key \in DOMAIN object_info_cache
         THEN [object_info_cache EXCEPT ![key] = bundle @@ @]
         ELSE object_info_cache @@ (key :> bundle)
    /\ stop_log' = Append(stop_log, "merge")
    /\ UNCHANGED <<bacnet_reader, config_result, disk_cache_file, reloads>>
    /\ disk_frame

\* application.py lines 133-145 and source.py lines 301-308: stop() dumps
\* the cache; ok is FALSE where open or the write raises OSError, which
\* leaves the file as it was or cut short
DiskStop(ok, cut) ==
    /\ bacnet_reader = "running"
    /\ bacnet_reader' = "stopped"
    /\ disk_cache_file' =
         IF ok THEN [kind |-> "json", items |-> Dump(object_info_cache),
                     written |-> TRUE, saved |-> object_info_cache]
         ELSE IF cut THEN File("invalid_json", NoItems)
         ELSE [disk_cache_file EXCEPT !.written = FALSE]
    /\ stop_log' = IF ok THEN <<>> ELSE <<"warning">>
    /\ UNCHANGED <<object_info_cache, config_result, reloads>>
    /\ disk_frame

\* the process is started again
DiskRestart ==
    /\ bacnet_reader = "stopped"
    /\ reloads < MaxRuns
    /\ bacnet_reader' = "none"
    /\ object_info_cache' = EmptyCache
    /\ stop_log' = <<>>
    /\ UNCHANGED <<config_result, disk_cache_file, reloads>>
    /\ disk_frame

\* the files a first run can find: none, one that cannot be opened, one
\* that is not JSON, and JSON objects whose keys are not three parts or
\* whose instance is not a number
FoundFiles ==
    {File("missing", NoItems), File("unreadable", NoItems), File("invalid_json", NoItems),
     File("json", [text \in {<<"f", "o", "o">>} |-> [p \in {} |-> "str"]]),
     File("json", [text \in {Address1 \o KeySeparator \o TypeDevice.text
                             \o KeySeparator \o <<"x">>} |-> [p \in {} |-> "str"]])}

InitDisk ==
    /\ bacnet_reader = "none"
    /\ object_groups = <<>>
    /\ device_config = {}
    /\ worker_stop_futures = <<>>
    /\ worker_tasks = <<>>
    /\ counts = [expected |-> 0, starting |-> 0, running |-> 0, failed |-> 0]
    /\ result_queue = <<>>
    /\ unfinished_tasks = 0
    /\ main_task_stop_future = FALSE
    /\ task_pc = "running"
    /\ config_pc = "idle"
    /\ config_arg = <<>>
    /\ config_result = "none"
    /\ stop_pc = "idle"
    /\ stop_waits = 0
    /\ object_info_cache = EmptyCache
    /\ deviceInfoCache = {}
    /\ io_queue = [d \in Devices |-> <<>>]
    /\ thread_pc = "idle"
    /\ put_item = NoItem
    /\ reloads = 0
    /\ stop_log = <<>>
    /\ TimedIdle
    /\ RelayIdle
    /\ calls = NoCalls
    /\ cache_lock = "free"
    /\ disk_cache_file \in FoundFiles
    /\ chunk_call = NoChunkCall /\ chunk_out = <<>>

NextDisk ==
    \/ Construct
    \/ \E r \in Responses : DiskMerge(r[1], r[2])
    \/ \E ok \in BOOLEAN, cut \in BOOLEAN : DiskStop(ok, cut)
    \/ DiskRestart

SpecDisk == InitDisk /\ [][NextDisk]_vars

\* C32: The constructor of the run after a stop() that wrote the file
\* gives the cache that stop() dumped: the same keys with the same bundles.
C32_SaveLoadRoundTrip ==
    [][(bacnet_reader = "none" /\ disk_cache_file.written
          /\ (bacnet_reader' # "none" \/ config_result' # config_result))
       => /\ bacnet_reader' = "running"
          /\ object_info_cache' = disk_cache_file.saved]_vars

\* C33: The constructor never raises: a file that is missing, cannot be
\* opened, is not JSON or holds keys that are not composite keys gives an
\* empty cache and a warning; a write that fails in stop() is logged and
\* the reader is stopped all the same.
C33_LoadNeverFails ==
    /\ config_result # "raised"
    /\ (bacnet_reader = "running" /\ reloads = 1 /\ ~disk_cache_file.written)
         => (stop_log # <<>> /\ stop_log[1] = "warning"
             /\ (Len(stop_log) = 1 => object_info_cache = EmptyCache))
    /\ (bacnet_reader = "stopped" /\ ~disk_cache_file.written)
         => stop_log = <<"warning">>

\* the workers of the current configuration in one of the states
WorkersIn(states) ==
    Cardinality({k \in DOMAIN worker_tasks : WState(worker_tasks[k]) \in states})

\* C34: In every state the counters are the numbers of workers in the
\* states: starting those in STARTING or DISCOVERING, running those in
\* RUNNING, failed those in FAILED, expected all workers of the current
\* configuration.
C34_HealthCounters ==
    /\ counts.starting = WorkersIn({"STARTING", "DISCOVERING"})
    /\ counts.running = WorkersIn({"RUNNING"})
    /\ counts.failed = WorkersIn({"FAILED"})
    /\ counts.expected = Len(worker_tasks)

\* C35: No timestamp handed to send for the metric is earlier than the
\* timestamp of the send before it (which self._last_time_send_by_metric
\* holds): not the arrival timestamp of a result that task() dequeues, and
\* not the timestamp of a NaN sample of the worker, which is later.  Two
\* arrival timestamps of one tick of this clock stand for two values of
\* Timestamp.now() in their order.
C35_TimestampsIncrease ==
    [][(Metric \in DOMAIN last_time_send_by_metric) =>
         /\ (stamped # <<>> /\ stamped' = Tail(stamped))
              => Head(stamped) >= last_time_send_by_metric[Metric]
         /\ sent' # sent
              => sent'[Len(sent')] > last_time_send_by_metric[Metric]]_vars

\* C36: The result task() dequeues next carries an address that is a key
\* of self._device_config, and task() has not ended by the lookup of line
\* 234.
C36_ResultOfConfiguredDevice ==
    /\ task_pc # "crashed"
    /\ (task_pc = "running" /\ result_queue # <<>>)
         => Head(result_queue).device \in device_config

(***************************************************************************)
(* Reloads of a source that runs a configuration: the orchestrator from    *)
(* the state in which the first config RPC (lines 70-212) left it.         *)
(***************************************************************************)
\* CfgOther was accepted and its worker task has been created; reloads
\* counts the config RPCs that follow
InitReload ==
    /\ bacnet_reader = "running"
    /\ object_groups = ParseObjectGroups(CfgOther)
    /\ device_config = ParseDeviceConfig(CfgOther)
    /\ worker_stop_futures = <<FALSE>>
    /\ worker_tasks = <<NewWorker(ParseObjectGroups(CfgOther)[1], 0)>>
    /\ counts = [expected |-> 1, starting |-> 0, running |-> 0, failed |-> 0]
    /\ result_queue = <<>>
    /\ unfinished_tasks = 0
    /\ main_task_stop_future = FALSE
    /\ task_pc = "running"
    /\ config_pc = "idle"
    /\ config_arg = <<>>
    /\ config_result = "accepted"
    /\ stop_pc = "idle"
    /\ stop_waits = 0
    /\ object_info_cache \in {EmptyCache, DiskCache}
    /\ deviceInfoCache = {}
    /\ io_queue = [d \in Devices |-> <<>>]
    /\ thread_pc = "idle"
    /\ put_item = NoItem
    /\ reloads = 0
    /\ stop_log = <<>>
    /\ TimedIdle
    /\ RelayIdle
    /\ GatewayIdle

\* a rejected and a valid configuration are delivered, in any order; the
\* workers, the reader's thread and task() take their steps, stop() is not
\* called
NextReload ==
    \/ \E config \in {CfgOverlap, CfgOther} : OnConfigBegin(config)
    \/ OnConfigResume
    \/ \E k \in DOMAIN worker_tasks : WorkerStart(k)
    \/ \E k \in DOMAIN worker_tasks : RequestDevicePropertiesBegin(k)
    \/ \E k \in DOMAIN worker_tasks : RequestDevicePropertiesWhoIs(k)
    \/ \E k \in DOMAIN worker_tasks : RequestDevicePropertiesWake(k)
    \/ \E k \in DOMAIN worker_tasks, ok \in BOOLEAN : RequestDevicePropertiesRead(k, ok)
    \/ \E k \in DOMAIN worker_tasks, acked \in SUBSET (1..2) : RequestObjectProperties(k, acked)
    \/ \E k \in DOMAIN worker_tasks : WorkerBuildMetrics(k)
    \/ \E k \in DOMAIN worker_tasks, ok \in BOOLEAN : WorkerDeclareMetrics(k, ok)
    \/ \E k \in DOMAIN worker_tasks : WorkerRequestValues(k)
    \/ \E k \in DOMAIN worker_tasks : WorkerTimeout(k)
    \/ \E k \in DOMAIN worker_tasks : WorkerStopped(k)
    \/ \E d \in Devices : do_IAmRequest(d)
    \/ \E d \in Devices, ok \in BOOLEAN : iocb_callback(d, ok, NumericValues)
    \/ put_result_in_source_queue(TRUE)
    \/ task_get

SpecReload == InitReload /\ [][NextReload]_vars

\* C37: When the reload before was rejected for a configuration error, the
\* _on_config call for a valid configuration does not raise, and where it
\* ends without a wait it has created one worker task per object group of
\* that configuration.
C37_ReloadAfterRejected ==
    [][\A config \in ValidConfigs :
         (config_result = "rejected" /\ OnConfigBegin(config)) =>
           /\ config_result' # "invalid_state"
           /\ config_pc' = "idle" =>
                /\ config_result' = "accepted"
                /\ Len(worker_tasks') = Len(ParseObjectGroups(config))
                /\ \A k \in DOMAIN worker_tasks' : worker_tasks'[k].pc = "jitter"]_vars

\* C38: stop() never joins the runner thread while that thread waits in
\* fut.result() for the event loop that stop() runs on: the join of the
\* runner thread does not time out.
C38_NoJoinDeadlock ==
    /\ bacnet_reader # "join_timeout"
    /\ bacnet_reader = "stopped" => thread_pc = "exited"

\* C39: For the metric of a group with nan_at_timeout of which no value
\* was ever sent, the check of an iteration that starts 6 intervals or more
\* after the worker entered its loop sends a NaN sample.
C39_NanWithoutLastSend ==
    [][(/\ NanCheckStep
        /\ nan_at_timeout
        /\ Metric \notin DOMAIN last_time_send_by_metric
        /\ clock - deadline0 >= NanAfterIntervals * interval)
       => sent' # sent]_vars

\* a step that replaces the worker tasks by those of a configuration
NewWorkers ==
    /\ worker_tasks' # <<>>
    /\ \A k \in DOMAIN worker_tasks' : worker_tasks'[k].pc = "jitter"
    /\ \E k \in DOMAIN worker_tasks' :
         k \notin DOMAIN worker_tasks \/ worker_tasks'[k].gen # worker_tasks[k].gen

\* C40: A step that creates the worker tasks of a configuration starts from
\* a state in which every worker task of the configuration before has
\* ended, so all worker tasks are of one configuration; the reader is
\* created and started only where there was none, and once there is one it
\* is never replaced.
C40_OneGeneration ==
    [][/\ NewWorkers => \A k \in DOMAIN worker_tasks : worker_tasks[k].pc \in Terminal
       /\ \A j, k \in DOMAIN worker_tasks' : worker_tasks'[j].gen = worker_tasks'[k].gen
       /\ (bacnet_reader' # bacnet_reader /\ bacnet_reader' = "running")
            => bacnet_reader = "none"
       /\ bacnet_reader # "none" => bacnet_reader' # "none"]_vars

\* the workers of the second reload run, after those of the first reload and
\* of the configuration before it
C40_Witness ==
    /\ reloads = 2
    /\ config_result = "accepted"
    /\ bacnet_reader = "running"
    /\ \E k \in DOMAIN worker_tasks :
         /\ worker_tasks[k].gen = 2
         /\ WState(worker_tasks[k]) = "RUNNING"
         /\ worker_tasks[k].polls >= 1

=============================================================================
